---- MODULE Spec2Model ----
(***************************************************************************)
(* A model of the data-transformation utilities and of the ESP workflow   *)
(* assembly of mispr: the Gaussian keyword merging (handle_gaussian_      *)
(* inputs), the tagged dispatch of process_mol / process_run, the         *)
(* signature stripping of run documents, the ESP workflow graph and the   *)
(* Gaussian output parsing task.                                          *)
(*                                                                         *)
(* Python values are tagged records.  A Python str is a tuple of one-     *)
(* character strings, so that lower(), startswith(), endswith() and       *)
(* splitext() are computed and not assumed.  A Python dict is an ordered  *)
(* sequence of [k, v] pairs with distinct keys (insertion order).         *)
(***************************************************************************)
EXTENDS Integers, Sequences, FiniteSets, TLC

VARIABLES
    STANDARD_OPT_GUASSIAN_INPUT, \* the module-level defaults (a mutable dict)
    gi_call,                     \* the last call of the keyword merging
    db,                          \* the document database the utilities read
    pm_call,                     \* the last call of process_mol / process_run
    wf,                          \* the workflow built by get_esp_charges
    fw_state,                    \* the execution state of each firework
    parse_call,                  \* the last run of ParseGaussianOutputFile
    ff_call,                     \* the last call of the force-field labelling
    gout_call,                   \* the last call of pass_gout_dict
    ff_dicts                     \* the force-field dictionaries a caller holds

vars == <<STANDARD_OPT_GUASSIAN_INPUT, gi_call, db, pm_call, wf, fw_state,
          parse_call, ff_call, gout_call, ff_dicts>>

-----------------------------------------------------------------------------
(* Python values *)

PyNone == [t |-> "None"]
PyStr(s) == [t |-> "str", s |-> s]
PyInt(n) == [t |-> "int", n |-> n]
PyDict(items) == [t |-> "dict", items |-> items]
PyList(elems) == [t |-> "list", elems |-> elems]
\* a reference to an object that several containers share
PyRef(name) == [t |-> "ref", to |-> name]

IsDict(v) == v.t = "dict"

\* bool(v) for the values the utilities test
Truthy(v) ==
    CASE v.t = "None" -> FALSE
      [] v.t = "dict" -> v.items # <<>>
      [] v.t = "list" -> v.elems # <<>>
      [] v.t = "str" -> v.s # <<>>
      [] OTHER -> TRUE

(* str methods *)

UpperChars == <<"A", "B", "C", "D", "E", "F", "G", "H", "I", "J", "K", "L", "M",
                "N", "O", "P", "Q", "R", "S", "T", "U", "V", "W", "X", "Y", "Z">>
LowerChars == <<"a", "b", "c", "d", "e", "f", "g", "h", "i", "j", "k", "l", "m",
                "n", "o", "p", "q", "r", "s", "t", "u", "v", "w", "x", "y", "z">>

LowerChar(c) ==
    IF \E i \in DOMAIN UpperChars : UpperChars[i] = c
    THEN LowerChars[CHOOSE i \in DOMAIN UpperChars : UpperChars[i] = c]
    ELSE c

\* s.lower()
lower(s) == [i \in 1..Len(s) |-> LowerChar(s[i])]

\* s.startswith(p)
startswith(s, p) == Len(s) >= Len(p) /\ SubSeq(s, 1, Len(p)) = p

\* s.endswith(p)
endswith(s, p) ==
    Len(s) >= Len(p) /\ SubSeq(s, Len(s) - Len(p) + 1, Len(s)) = p

\* sub in s
contains(s, sub) ==
    \E i \in 1..(Len(s) - Len(sub) + 1) : SubSeq(s, i, i + Len(sub) - 1) = sub

(* dict operations, on the sequence of [k, v] pairs *)

DictKeys(d) == {d[i].k : i \in DOMAIN d}
HasKey(d, k) == \E i \in DOMAIN d : d[i].k = k
IndexOf(d, k) == CHOOSE i \in DOMAIN d : d[i].k = k
GetItem(d, k) == d[IndexOf(d, k)].v

\* d[k] = v
SetItem(d, k, v) ==
    IF HasKey(d, k)
    THEN [i \in DOMAIN d |-> IF d[i].k = k THEN [k |-> k, v |-> v] ELSE d[i]]
    ELSE Append(d, [k |-> k, v |-> v])

\* del d[k]
DelItem(d, k) ==
    LET i == IndexOf(d, k)
    IN  SubSeq(d, 1, i - 1) \o SubSeq(d, i + 1, Len(d))

\* d.update(e), also {**d, **e}
RECURSIVE Update(_, _)
Update(d, e) ==
    IF e = <<>> THEN d
    ELSE Update(SetItem(d, Head(e).k, Head(e).v), Tail(e))

\* [i.lower() for i in d]
LowerKeys(d) == {lower(d[i].k) : i \in DOMAIN d}

-----------------------------------------------------------------------------
(* Gaussian keyword merging: src/infrastructure/gaussian/utils/utils.py *)

s_opt == <<"o", "p", "t">>
s_Opt == <<"O", "p", "t">>
s_freq == <<"f", "r", "e", "q">>
s_nmr == <<"n", "m", "r">>
s_esp == <<"e", "s", "p">>
s_sp == <<"s", "p">>
s_scrf == <<"s", "c", "r", "f">>
s_SCRF == <<"S", "C", "R", "F">>
s_functional == <<"f", "u", "n", "c", "t", "i", "o", "n", "a", "l">>
s_basis_set == <<"b", "a", "s", "i", "s", "_", "s", "e", "t">>
s_route_parameters ==
    <<"r", "o", "u", "t", "e", "_", "p", "a", "r", "a", "m", "e", "t", "e", "r", "s">>
s_link0_parameters ==
    <<"l", "i", "n", "k", "0", "_", "p", "a", "r", "a", "m", "e", "t", "e", "r", "s">>
s_input_parameters ==
    <<"i", "n", "p", "u", "t", "_", "p", "a", "r", "a", "m", "e", "t", "e", "r", "s">>

\* the value of STANDARD_OPT_GUASSIAN_INPUT when the module is imported
StandardOptInput ==
    PyDict(<<
        [k |-> s_functional, v |-> PyStr(<<"B", "3", "L", "Y", "P">>)],
        [k |-> s_basis_set, v |-> PyStr(<<"6", "-", "3", "1", "G", "(", "d", ")">>)],
        [k |-> s_route_parameters, v |-> PyDict(<<[k |-> s_Opt, v |-> PyNone]>>)],
        [k |-> s_link0_parameters, v |-> PyDict(<<
            [k |-> <<"%", "c", "h", "k">>,
             v |-> PyStr(<<"c", "h", "e", "c", "k", "p", "o", "i", "n", "t", ".",
                           "c", "h", "k">>)],
            [k |-> <<"%", "m", "e", "m">>, v |-> PyStr(<<"4", "5", "G", "B">>)],
            [k |-> <<"%", "N", "P", "r", "o", "c", "S", "h", "a", "r", "e", "d">>,
             v |-> PyStr(<<"2", "4">>)]>>)]>>)

\* the dict object STANDARD_OPT_GUASSIAN_INPUT["route_parameters"], which the
\* shallow merge {**STANDARD_OPT_GUASSIAN_INPUT, **opt} shares with the opt entry
StdRouteRef == PyRef("STANDARD_OPT_GUASSIAN_INPUT.route_parameters")

\* the main keywords of the supported non-opt jobs
DefaultSupportedJobs ==
    <<[k |-> s_freq, v |-> <<[k |-> <<"F", "r", "e", "q">>, v |-> PyNone]>>],
      [k |-> s_nmr, v |-> <<[k |-> <<"N", "M", "R">>,
                             v |-> PyStr(<<"G", "I", "A", "O">>)]>>],
      [k |-> s_esp, v |-> <<[k |-> <<"p", "o", "p">>, v |-> PyStr(<<"M", "K">>)],
                            [k |-> <<"i", "o", "p", "(", "6", "/", "5", "0", "=",
                                     "1", ")">>, v |-> PyNone]>>],
      [k |-> s_sp, v |-> <<[k |-> <<"S", "P">>, v |-> PyNone]>>]>>

\* entry["route_parameters"], read through the shared object
RouteOf(std, entry) ==
    LET r == GetItem(entry.items, s_route_parameters)
    IN  IF r = StdRouteRef THEN GetItem(std.items, s_route_parameters) ELSE r

\* copy.deepcopy(entry): the copy shares nothing
deepcopy(std, entry) ==
    PyDict([i \in DOMAIN entry.items |->
              IF entry.items[i].v = StdRouteRef
              THEN [k |-> entry.items[i].k,
                    v |-> GetItem(std.items, s_route_parameters)]
              ELSE entry.items[i]])

\* {**STANDARD_OPT_GUASSIAN_INPUT}: the top level is new, the values are shared
ShallowStandard(std) ==
    [i \in DOMAIN std.items |->
        IF std.items[i].k = s_route_parameters
        THEN [k |-> s_route_parameters, v |-> StdRouteRef]
        ELSE std.items[i]]

\* the first key of route_parameters that is "opt" ignoring case, 0 if none
FirstOptIndex(route) ==
    IF \E i \in DOMAIN route : lower(route[i].k) = s_opt
    THEN CHOOSE i \in DOMAIN route :
            /\ lower(route[i].k) = s_opt
            /\ \A j \in 1..(i - 1) : lower(route[j].k) # s_opt
    ELSE 0

\* _update_gaussian_inputs with the merge written the other way round,
\* {**other_gaussian_inputs, **opt_gaussian_inputs}: the opt values win
Mutant_update_gaussian_inputs_opt_wins(opt_gaussian_inputs, other_gaussian_inputs, main_keyword) ==
    LET merged == Update(other_gaussian_inputs.items, opt_gaussian_inputs.items)
        route0 == GetItem(merged, s_route_parameters).items
        route1 == IF lower(main_keyword[1].k) \notin LowerKeys(route0)
                  THEN Update(route0, main_keyword)
                  ELSE route0
        route2 == IF FirstOptIndex(route1) # 0
                  THEN DelItem(route1, route1[FirstOptIndex(route1)].k)
                  ELSE route1
    IN  PyDict(SetItem(merged, s_route_parameters, PyDict(route2)))

_update_gaussian_inputs(opt_gaussian_inputs, other_gaussian_inputs, main_keyword) ==
    LET merged == Update(opt_gaussian_inputs.items, other_gaussian_inputs.items)
        route0 == GetItem(merged, s_route_parameters).items
        route1 == IF lower(main_keyword[1].k) \notin LowerKeys(route0)
                  THEN Update(route0, main_keyword)
                  ELSE route0
        route2 == IF FirstOptIndex(route1) # 0
                  THEN DelItem(route1, route1[FirstOptIndex(route1)].k)
                  ELSE route1
    IN  PyDict(SetItem(merged, s_route_parameters, PyDict(route2)))

\* {k.lower(): v for k, v in supported_jobs.items()}, and the dict
\* comprehension of line 599: a later key that lowers to the same name wins
RECURSIVE LowerKeyed(_, _)
LowerKeyed(d, none_as_empty) ==
    IF d = <<>> THEN <<>>
    ELSE LET last == d[Len(d)]
             val == IF none_as_empty /\ last.v = PyNone THEN PyDict(<<>>) ELSE last.v
             rest == LowerKeyed(SubSeq(d, 1, Len(d) - 1), none_as_empty)
         IN  SetItem(rest, lower(last.k), val)

\* the loop of lines 610-620 from the job at position i on
RECURSIVE UpdateJobsFrom(_, _, _, _)
UpdateJobsFrom(std, gaussian_inputs, supported_jobs, i) ==
    IF i > Len(gaussian_inputs) THEN gaussian_inputs
    ELSE LET job == gaussian_inputs[i].k
             next ==
               IF HasKey(supported_jobs, job) /\ job # s_opt
               THEN SetItem(gaussian_inputs, job,
                        _update_gaussian_inputs(
                            deepcopy(std, GetItem(gaussian_inputs, s_opt)),
                            gaussian_inputs[i].v,
                            GetItem(supported_jobs, job)))
               ELSE gaussian_inputs
         IN  UpdateJobsFrom(std, next, supported_jobs, i + 1)

\* The result is [std, gi]: the module-level defaults after the call (the opt
\* entry can share their route_parameters) and the returned dict of jobs.
_get_gaussian_inputs(std, gaussian_inputs, supported_jobs) ==
    LET supported == Update(DefaultSupportedJobs, LowerKeyed(supported_jobs, FALSE))
        gi0 == LowerKeyed(gaussian_inputs, TRUE)
        gi1 == IF ~HasKey(gi0, s_opt) THEN SetItem(gi0, s_opt, PyDict(<<>>)) ELSE gi0
        opt0 == PyDict(Update(ShallowStandard(std), GetItem(gi1, s_opt).items))
        needs_opt == s_opt \notin LowerKeys(RouteOf(std, opt0).items)
        new_route == PyDict(Update(RouteOf(std, opt0).items,
                                   <<[k |-> s_Opt, v |-> PyNone]>>))
        shared == GetItem(opt0.items, s_route_parameters) = StdRouteRef
        std1 == IF needs_opt /\ shared
                THEN PyDict(SetItem(std.items, s_route_parameters, new_route))
                ELSE std
        opt1 == IF needs_opt /\ ~shared
                THEN PyDict(SetItem(opt0.items, s_route_parameters, new_route))
                ELSE opt0
        gi2 == SetItem(gi1, s_opt, opt1)
    IN  [std |-> std1, gi |-> UpdateJobsFrom(std1, gi2, supported, 1)]

\* _check_solvent_inputs that looks for the key "scrf" as written, not lowered
Mutant_check_solvent_inputs_exact(std, gaussian_inputs) ==
    \E i \in DOMAIN gaussian_inputs :
        /\ Truthy(gaussian_inputs[i].v)
        /\ HasKey(gaussian_inputs[i].v.items, s_route_parameters)
        /\ HasKey(RouteOf(std, gaussian_inputs[i].v).items, s_scrf)

\* The result is TRUE when the assertion of line 630 fails.
_check_solvent_inputs(std, gaussian_inputs) ==
    LET RECURSIVE Collect(_, _)
        Collect(route_params, i) ==
            IF i > Len(gaussian_inputs) THEN route_params
            ELSE LET value == gaussian_inputs[i].v
                 IN  IF Truthy(value)
                     THEN Collect(
                            Update(route_params,
                                   IF HasKey(value.items, s_route_parameters)
                                   THEN RouteOf(std, value).items ELSE <<>>),
                            i + 1)
                     ELSE Collect(route_params, i + 1)
    IN  s_scrf \in LowerKeys(Collect(<<>>, 1))

\* the loop body with the update of line 650 the other way round: a value the
\* job already has for a solvent property is kept
Mutant_AddSolventToJob_keeps(st, i, solvent_gaussian_inputs, solvent_properties) ==
    LET entry0 == st.gi[i].v
        entry1 == IF ~HasKey(entry0.items, s_route_parameters)
                  THEN PyDict(SetItem(entry0.items, s_route_parameters, PyDict(<<>>)))
                  ELSE entry0
        shared == GetItem(entry1.items, s_route_parameters) = StdRouteRef
        route == PyDict(SetItem(RouteOf(st.std, entry1).items, s_SCRF,
                                solvent_gaussian_inputs))
        std1 == IF shared
                THEN PyDict(SetItem(st.std.items, s_route_parameters, route))
                ELSE st.std
        entry2 == IF shared THEN entry1
                  ELSE PyDict(SetItem(entry1.items, s_route_parameters, route))
        entry3 == IF ~Truthy(solvent_properties) THEN entry2
                  ELSE LET old == IF HasKey(entry2.items, s_input_parameters)
                                  THEN GetItem(entry2.items, s_input_parameters).items
                                  ELSE <<>>
                       IN  PyDict(SetItem(entry2.items, s_input_parameters,
                                   PyDict(Update(solvent_properties.items, old))))
    IN  [std |-> std1, gi |-> SetItem(st.gi, st.gi[i].k, entry3)]

\* one iteration of the loop of lines 642-650, on the job at position i
AddSolventToJob(st, i, solvent_gaussian_inputs, solvent_properties) ==
    LET entry0 == st.gi[i].v
        entry1 == IF ~HasKey(entry0.items, s_route_parameters)
                  THEN PyDict(SetItem(entry0.items, s_route_parameters, PyDict(<<>>)))
                  ELSE entry0
        shared == GetItem(entry1.items, s_route_parameters) = StdRouteRef
        route == PyDict(SetItem(RouteOf(st.std, entry1).items, s_SCRF,
                                solvent_gaussian_inputs))
        std1 == IF shared
                THEN PyDict(SetItem(st.std.items, s_route_parameters, route))
                ELSE st.std
        entry2 == IF shared THEN entry1
                  ELSE PyDict(SetItem(entry1.items, s_route_parameters, route))
        entry3 == IF ~Truthy(solvent_properties) THEN entry2
                  ELSE LET old == IF HasKey(entry2.items, s_input_parameters)
                                  THEN GetItem(entry2.items, s_input_parameters).items
                                  ELSE <<>>
                       IN  PyDict(SetItem(entry2.items, s_input_parameters,
                                   PyDict(Update(old, solvent_properties.items))))
    IN  [std |-> std1, gi |-> SetItem(st.gi, st.gi[i].k, entry3)]

RECURSIVE AddSolventFrom(_, _, _, _)
AddSolventFrom(st, i, solvent_gaussian_inputs, solvent_properties) ==
    IF i > Len(st.gi) THEN st
    ELSE AddSolventFrom(
            AddSolventToJob(st, i, solvent_gaussian_inputs, solvent_properties),
            i + 1, solvent_gaussian_inputs, solvent_properties)

\* _add_solvent_inputs with the test for a generic solvent after the loop
Mutant_add_solvent_inputs_late(std, gaussian_inputs, solvent_gaussian_inputs, solvent_properties) ==
    LET st == AddSolventFrom([std |-> std, gi |-> gaussian_inputs], 1,
                             solvent_gaussian_inputs, solvent_properties)
    IN  [std |-> st.std, gi |-> st.gi,
         error |-> IF /\ contains(lower(solvent_gaussian_inputs.s),
                                  <<"g", "e", "n", "e", "r", "i", "c">>)
                      /\ ~Truthy(solvent_properties)
                   THEN "Exception" ELSE "none"]

\* The result is [std, gi, error].
_add_solvent_inputs(std, gaussian_inputs, solvent_gaussian_inputs, solvent_properties) ==
    IF /\ contains(lower(solvent_gaussian_inputs.s), <<"g", "e", "n", "e", "r", "i", "c">>)
       /\ ~Truthy(solvent_properties)
    THEN [std |-> std, gi |-> gaussian_inputs, error |-> "Exception"]
    ELSE LET st == AddSolventFrom([std |-> std, gi |-> gaussian_inputs], 1,
                                  solvent_gaussian_inputs, solvent_properties)
         IN  [std |-> st.std, gi |-> st.gi, error |-> "none"]

\* The result is [std, gi, error]; gi is returned only when error = "none".
handle_gaussian_inputs(std, gaussian_inputs, solvent_gaussian_inputs, solvent_properties) ==
    LET got == _get_gaussian_inputs(std, gaussian_inputs, <<>>)
    IN  IF _check_solvent_inputs(got.std, got.gi)
        THEN [std |-> got.std, gi |-> got.gi, error |-> "AssertionError"]
        ELSE IF Truthy(solvent_gaussian_inputs)
             THEN _add_solvent_inputs(got.std, got.gi, solvent_gaussian_inputs,
                                      solvent_properties)
             ELSE [std |-> got.std, gi |-> got.gi, error |-> "none"]

-----------------------------------------------------------------------------
(* The calls of the keyword merging *)

\* the values of the variables a specification leaves alone
EmptyDb == [molecules |-> {}, fgs |-> {}, runs |-> <<>>]
NoPmCall ==
    [fn |-> "none", operation_type |-> "", arg |-> PyNone, run_after |-> PyNone,
     local_opt |-> FALSE, input_file |-> PyNone,
     kwargs |-> [db |-> "usable", str_type |-> PyNone, charge |-> PyNone],
     outcome |-> "none", msg |-> "", value |-> PyNone, trace |-> <<>>]
NoWorkflow ==
    [called |-> FALSE, spec |-> PyNone, skip_opt_freq |-> FALSE, error |-> "none",
     fws |-> <<>>]
NoFwState == <<>>
NoParseCall ==
    [ran |-> FALSE, files |-> <<>>, stored_data |-> PyNone, mod_spec |-> PyNone]
NoFfCall == [fn |-> "none", arg |-> <<>>, label |-> <<>>, result |-> <<>>]
NoFfDicts == <<>>
NoGoutCall ==
    [fn |-> "none", fw_spec |-> PyNone, key |-> <<>>, outcome |-> "none",
     value |-> PyNone]

MaxJobs == 2

s_scan == <<"s", "c", "a", "n">>
s_PBE == <<"P", "B", "E">>
s_EPS == <<"E", "P", "S">>
s_pop == <<"p", "o", "p">>

\* job names a caller passes: two spellings of opt, a supported job and a job
\* that has no main keyword
JobNames == {s_opt, s_Opt, s_esp, s_scan}

\* per-job keyword dictionaries a caller passes
JobInputs ==
    { PyNone,
      PyDict(<<[k |-> s_functional, v |-> PyStr(s_PBE)],
               [k |-> s_input_parameters,
                v |-> PyDict(<<[k |-> s_EPS, v |-> PyStr(<<"1">>)]>>)]>>),
      PyDict(<<[k |-> s_route_parameters,
                v |-> PyDict(<<[k |-> s_opt, v |-> PyStr(<<"t", "i", "g", "h", "t">>)]>>)]>>),
      PyDict(<<[k |-> s_route_parameters,
                v |-> PyDict(<<[k |-> s_pop, v |-> PyStr(<<"C", "H", "e", "l", "p", "G">>)]>>)]>>),
      PyDict(<<[k |-> s_route_parameters,
                v |-> PyDict(<<[k |-> <<"S", "c", "r", "f">>,
                                v |-> PyStr(<<"p", "c", "m">>)]>>)]>>) }

\* the dicts of at most n jobs, in every insertion order
RECURSIVE GaussianInputsUpTo(_)
GaussianInputsUpTo(n) ==
    IF n = 0 THEN {<<>>}
    ELSE LET shorter == GaussianInputsUpTo(n - 1)
         IN  shorter \cup
             { Append(d, [k |-> job, v |-> inp]) :
                 d \in {x \in shorter : Len(x) = n - 1},
                 job \in JobNames, inp \in JobInputs }

GaussianInputsArgs ==
    {d \in GaussianInputsUpTo(MaxJobs) :
        \A i, j \in DOMAIN d : d[i].k = d[j].k => i = j}

SolventArgs ==
    { PyNone,
      PyStr(<<"(", "S", "o", "l", "v", "e", "n", "t", "=", "w", "a", "t", "e", "r", ")">>),
      PyStr(<<"(", "S", "o", "l", "v", "e", "n", "t", "=", "G", "e", "n", "e", "r",
              "i", "c", ",", "R", "e", "a", "d", ")">>) }

SolventPropertiesArgs ==
    {PyNone, PyDict(<<[k |-> s_EPS, v |-> PyStr(<<"1", "2">>)]>>)}

SupportedJobsArgs ==
    {<<>>, <<[k |-> <<"S", "c", "a", "n">>, v |-> <<[k |-> s_scan, v |-> PyNone]>>]>>}

NoGiCall ==
    [fn |-> "none", gaussian_inputs |-> <<>>, supported_jobs |-> <<>>,
     solvent_gaussian_inputs |-> PyNone, solvent_properties |-> PyNone,
     error |-> "none", jobs |-> <<>>, result |-> <<>>]

\* handle_gaussian_inputs(gaussian_inputs, solvent_gaussian_inputs, solvent_properties)
CallHandleGaussianInputs ==
    /\ gi_call.fn = "none"
    /\ \E gaussian_inputs \in GaussianInputsArgs, solvent \in SolventArgs,
       props \in SolventPropertiesArgs :
        LET r == handle_gaussian_inputs(STANDARD_OPT_GUASSIAN_INPUT, gaussian_inputs,
                                        solvent, props)
        IN  /\ STANDARD_OPT_GUASSIAN_INPUT' = r.std
            /\ gi_call' = [fn |-> "handle_gaussian_inputs",
                           gaussian_inputs |-> gaussian_inputs,
                           supported_jobs |-> <<>>,
                           solvent_gaussian_inputs |-> solvent,
                           solvent_properties |-> props,
                           error |-> r.error,
                           jobs |-> r.gi,
                           result |-> IF r.error = "none" THEN r.gi ELSE <<>>]
            /\ UNCHANGED <<db, pm_call, wf, fw_state, parse_call, ff_call, gout_call, ff_dicts>>

\* _get_gaussian_inputs(gaussian_inputs, supported_jobs)
CallGetGaussianInputs ==
    /\ gi_call.fn = "none"
    /\ \E gaussian_inputs \in GaussianInputsArgs, supported_jobs \in SupportedJobsArgs :
        LET r == _get_gaussian_inputs(STANDARD_OPT_GUASSIAN_INPUT, gaussian_inputs,
                                      supported_jobs)
        IN  /\ STANDARD_OPT_GUASSIAN_INPUT' = r.std
            /\ gi_call' = [fn |-> "_get_gaussian_inputs",
                           gaussian_inputs |-> gaussian_inputs,
                           supported_jobs |-> supported_jobs,
                           solvent_gaussian_inputs |-> PyNone,
                           solvent_properties |-> PyNone,
                           error |-> "none",
                           jobs |-> r.gi,
                           result |-> r.gi]
            /\ UNCHANGED <<db, pm_call, wf, fw_state, parse_call, ff_call, gout_call, ff_dicts>>

InitInputs ==
    /\ STANDARD_OPT_GUASSIAN_INPUT = StandardOptInput
    /\ gi_call = NoGiCall
    /\ db = EmptyDb
    /\ pm_call = NoPmCall
    /\ wf = NoWorkflow
    /\ fw_state = NoFwState
    /\ parse_call = NoParseCall
    /\ ff_call = NoFfCall
    /\ gout_call = NoGoutCall
    /\ ff_dicts = NoFfDicts

\* the caller takes the result; the next call can start
ReturnGaussianInputs ==
    /\ gi_call.fn # "none"
    /\ gi_call' = NoGiCall
    /\ UNCHANGED <<STANDARD_OPT_GUASSIAN_INPUT, db, pm_call, wf, fw_state, parse_call, ff_call, gout_call, ff_dicts>>

NextInputs ==
    CallHandleGaussianInputs \/ CallGetGaussianInputs \/ ReturnGaussianInputs

SpecInputs == InitInputs /\ [][NextInputs]_vars

(* Claims about the keyword merging *)

\* the jobs with a main keyword in the last call
SupportedJobNames ==
    DictKeys(DefaultSupportedJobs) \cup LowerKeys(gi_call.supported_jobs)

\* what the caller gave for a job of the result: the value of the last key that
\* lowers to the job's name, None read as {}
CallerGaveJob(job) == \E i \in DOMAIN gi_call.gaussian_inputs :
                          lower(gi_call.gaussian_inputs[i].k) = job
CallerEntry(job) == GetItem(LowerKeyed(gi_call.gaussian_inputs, TRUE), job)

MergePrecedenceExcept(excluded) ==
    (gi_call.fn # "none" /\ gi_call.error = "none") =>
    \A i \in DOMAIN gi_call.result :
        LET job == gi_call.result[i].k
            entry == gi_call.result[i].v
            opt == GetItem(gi_call.result, s_opt)
        IN  \A key \in DictKeys(entry.items) \ excluded :
              IF CallerGaveJob(job) /\ HasKey(CallerEntry(job).items, key)
              THEN GetItem(entry.items, key) = GetItem(CallerEntry(job).items, key)
              ELSE IF job # s_opt /\ job \in SupportedJobNames
              THEN /\ HasKey(opt.items, key)
                   /\ GetItem(entry.items, key) = GetItem(opt.items, key)
              ELSE /\ job = s_opt
                   /\ HasKey(StandardOptInput.items, key)
                   /\ GetItem(entry.items, key) = GetItem(StandardOptInput.items, key)

\* C1 as stated: in the result of _get_gaussian_inputs and of
\* handle_gaussian_inputs, every top-level key other than route_parameters of
\* every job entry has the caller's value for that job if the caller gave the
\* key, else the merged opt entry's value for a supported non-opt job, else
\* (for opt) the value of STANDARD_OPT_GUASSIAN_INPUT.
C1_MergePrecedence_AsStated == MergePrecedenceExcept({s_route_parameters})

\* C1 amended: the same precedence, for every top-level key other than
\* route_parameters and, in a call of handle_gaussian_inputs that applies
\* solvent_properties, other than input_parameters (which the solvent step
\* creates or updates in every job entry).
C1_MergePrecedence ==
    MergePrecedenceExcept(
        {s_route_parameters} \cup
        (IF /\ gi_call.fn = "handle_gaussian_inputs"
            /\ Truthy(gi_call.solvent_gaussian_inputs)
            /\ Truthy(gi_call.solvent_properties)
         THEN {s_input_parameters} ELSE {}))

\* C1 witness: handle_gaussian_inputs returned an esp entry that takes its
\* functional from the caller's opt entry and an opt entry that takes its
\* basis set from the defaults, the esp job having been passed as None.
C1_Witness ==
    /\ gi_call.fn = "handle_gaussian_inputs"
    /\ gi_call.error = "none"
    /\ Truthy(gi_call.solvent_properties)
    /\ gi_call.gaussian_inputs =
          <<[k |-> s_opt, v |-> PyDict(<<[k |-> s_functional, v |-> PyStr(s_PBE)],
               [k |-> s_input_parameters,
                v |-> PyDict(<<[k |-> s_EPS, v |-> PyStr(<<"1">>)]>>)]>>)],
            [k |-> s_esp, v |-> PyNone]>>
    /\ GetItem(GetItem(gi_call.result, s_esp).items, s_functional) = PyStr(s_PBE)
    /\ GetItem(GetItem(gi_call.result, s_opt).items, s_basis_set)
          = GetItem(StandardOptInput.items, s_basis_set)

\* some job entry of the merged inputs has a route parameter "scrf", in any case
HasScrfRoute(std, gaussian_inputs) ==
    \E i \in DOMAIN gaussian_inputs :
        /\ HasKey(gaussian_inputs[i].v.items, s_route_parameters)
        /\ s_scrf \in LowerKeys(RouteOf(std, gaussian_inputs[i].v).items)

\* what _get_gaussian_inputs makes of the last call's inputs from the defaults std
MergedInputs(std, call) == _get_gaussian_inputs(std, call.gaussian_inputs, <<>>)

\* C12: a call of handle_gaussian_inputs fails with the assertion "solvent
\* inputs should be provided as separate inputs ..." exactly when, after the
\* merge, the route_parameters of some job hold a key equal to "scrf" ignoring
\* case, with or without solvent_gaussian_inputs; it returns no result then,
\* and the check passes whenever no job has such a key.
C12_ScrfRejected ==
    [][gi_call'.fn = "handle_gaussian_inputs" =>
        /\ \A m \in {MergedInputs(STANDARD_OPT_GUASSIAN_INPUT, gi_call')} :
            (gi_call'.error = "AssertionError") <=> HasScrfRoute(m.std, m.gi)
        /\ gi_call'.error = "AssertionError" => gi_call'.result = <<>>]_vars

\* the caller put Scrf in the route_parameters of esp and also gave a solvent
C12_Witness ==
    /\ gi_call.fn = "handle_gaussian_inputs"
    /\ gi_call.error = "AssertionError"
    /\ Truthy(gi_call.solvent_gaussian_inputs)
    /\ HasKey(gi_call.gaussian_inputs, s_esp)
    /\ HasKey(GetItem(gi_call.gaussian_inputs, s_esp).items, s_route_parameters)
    /\ s_scrf \in LowerKeys(GetItem(GetItem(gi_call.gaussian_inputs, s_esp).items,
                                    s_route_parameters).items)

\* C13 as stated: whatever calls of handle_gaussian_inputs were made, the
\* module-level STANDARD_OPT_GUASSIAN_INPUT still has the value it was defined
\* with: functional B3LYP, basis set 6-31G(d), route_parameters {"Opt": None}
\* and its link0_parameters.
C13_DefaultsNeverModified_AsStated == STANDARD_OPT_GUASSIAN_INPUT = StandardOptInput

\* the job entries with every shared object read out
ResolvedJobs(std, gaussian_inputs) ==
    [i \in DOMAIN gaussian_inputs |->
        [k |-> gaussian_inputs[i].k, v |-> deepcopy(std, gaussian_inputs[i].v)]]

\* C14 as stated: the outcome of a call of handle_gaussian_inputs is the one
\* the same arguments give in a fresh process, whatever calls came before; in
\* particular a call whose caller-supplied route_parameters hold no "scrf" key
\* does not fail the solvent assertion.
C14_OutcomeFromArgumentsOnly_AsStated ==
    gi_call.fn = "handle_gaussian_inputs" =>
        \A fresh \in {handle_gaussian_inputs(StandardOptInput, gi_call.gaussian_inputs,
                                             gi_call.solvent_gaussian_inputs,
                                             gi_call.solvent_properties)} :
            /\ gi_call.error = fresh.error
            /\ gi_call.error = "none" =>
                ResolvedJobs(STANDARD_OPT_GUASSIAN_INPUT, gi_call.result)
                    = ResolvedJobs(fresh.std, fresh.gi)
            /\ HasScrfRoute(StandardOptInput,
                            LowerKeyed(gi_call.gaussian_inputs, TRUE))
               \/ gi_call.error # "AssertionError"

\* the main keywords of a job in the last call of _get_gaussian_inputs
MainKeywordOf(job) ==
    GetItem(Update(DefaultSupportedJobs, LowerKeyed(gi_call.supported_jobs, FALSE)), job)

\* C15 as stated: in the result of _get_gaussian_inputs the route_parameters
\* of the opt entry hold a key equal to "opt" ignoring case, and the
\* route_parameters of every supported non-opt job hold no such key and hold,
\* ignoring case, every keyword of the job type's main keywords (Freq; NMR;
\* pop and iop(6/50=1); SP).
C15_MainKeywords_AsStated ==
    gi_call.fn = "_get_gaussian_inputs" =>
        /\ s_opt \in LowerKeys(RouteOf(STANDARD_OPT_GUASSIAN_INPUT,
                                       GetItem(gi_call.result, s_opt)).items)
        /\ \A i \in DOMAIN gi_call.result :
            (gi_call.result[i].k # s_opt /\ gi_call.result[i].k \in SupportedJobNames) =>
                /\ s_opt \notin LowerKeys(RouteOf(STANDARD_OPT_GUASSIAN_INPUT,
                                                  gi_call.result[i].v).items)
                /\ LowerKeys(MainKeywordOf(gi_call.result[i].k))
                     \subseteq LowerKeys(RouteOf(STANDARD_OPT_GUASSIAN_INPUT,
                                                 gi_call.result[i].v).items)

\* C16: when handle_gaussian_inputs is given a non-empty
\* solvent_gaussian_inputs and returns, every job entry of the result has
\* route_parameters["SCRF"] equal to it and, if solvent_properties is given,
\* input_parameters that hold every solvent property with the given value,
\* whatever the job had before; when solvent_gaussian_inputs is empty and the
\* call returns, no job entry has a route parameter "scrf" in any case.
C16_SolventApplied ==
    (gi_call.fn = "handle_gaussian_inputs" /\ gi_call.error = "none") =>
        \A i \in DOMAIN gi_call.result :
            IF Truthy(gi_call.solvent_gaussian_inputs)
            THEN /\ HasKey(gi_call.result[i].v.items, s_route_parameters)
                 /\ HasKey(RouteOf(STANDARD_OPT_GUASSIAN_INPUT,
                                   gi_call.result[i].v).items, s_SCRF)
                 /\ GetItem(RouteOf(STANDARD_OPT_GUASSIAN_INPUT,
                                    gi_call.result[i].v).items, s_SCRF)
                        = gi_call.solvent_gaussian_inputs
                 /\ Truthy(gi_call.solvent_properties) =>
                      /\ HasKey(gi_call.result[i].v.items, s_input_parameters)
                      /\ \A p \in DOMAIN gi_call.solvent_properties.items :
                          /\ HasKey(GetItem(gi_call.result[i].v.items,
                                            s_input_parameters).items,
                                    gi_call.solvent_properties.items[p].k)
                          /\ GetItem(GetItem(gi_call.result[i].v.items,
                                             s_input_parameters).items,
                                     gi_call.solvent_properties.items[p].k)
                                = gi_call.solvent_properties.items[p].v
            ELSE HasKey(gi_call.result[i].v.items, s_route_parameters) =>
                    s_scrf \notin LowerKeys(RouteOf(STANDARD_OPT_GUASSIAN_INPUT,
                                                    gi_call.result[i].v).items)

\* a solvent and its properties were applied to an opt entry that had its own
\* EPS and to a job without a main keyword, passed as None
C16_Witness ==
    /\ gi_call.fn = "handle_gaussian_inputs"
    /\ gi_call.error = "none"
    /\ Truthy(gi_call.solvent_gaussian_inputs)
    /\ Truthy(gi_call.solvent_properties)
    /\ gi_call.gaussian_inputs =
          <<[k |-> s_opt, v |-> PyDict(<<[k |-> s_functional, v |-> PyStr(s_PBE)],
               [k |-> s_input_parameters,
                v |-> PyDict(<<[k |-> s_EPS, v |-> PyStr(<<"1">>)]>>)]>>)],
            [k |-> s_scan, v |-> PyNone]>>
    /\ GetItem(GetItem(GetItem(gi_call.result, s_opt).items,
                       s_input_parameters).items, s_EPS) = PyStr(<<"1", "2">>)
    /\ GetItem(GetItem(GetItem(gi_call.result, s_scan).items,
                       s_route_parameters).items, s_SCRF)
          = gi_call.solvent_gaussian_inputs

\* C17: _add_solvent_inputs, called by handle_gaussian_inputs with a solvent
\* that contains "generic" in any case and with solvent_properties empty or
\* None, raises, and the job entries (and the defaults the opt entry shares)
\* are then as the merge left them: it raises before it touches any entry.
C17_GenericNeedsProperties ==
    [][( /\ gi_call'.fn = "handle_gaussian_inputs"
         /\ Truthy(gi_call'.solvent_gaussian_inputs)
         /\ contains(lower(gi_call'.solvent_gaussian_inputs.s),
                     <<"g", "e", "n", "e", "r", "i", "c">>)
         /\ ~Truthy(gi_call'.solvent_properties) ) =>
        \A m \in {MergedInputs(STANDARD_OPT_GUASSIAN_INPUT, gi_call')} :
            ~HasScrfRoute(m.std, m.gi) =>
                /\ gi_call'.error = "Exception"
                /\ gi_call'.result = <<>>
                /\ gi_call'.jobs = m.gi
                /\ STANDARD_OPT_GUASSIAN_INPUT' = m.std]_vars

\* "(Solvent=Generic,Read)" without properties, for an opt and an esp job
C17_Witness ==
    /\ gi_call.fn = "handle_gaussian_inputs"
    /\ gi_call.error = "Exception"
    /\ ~Truthy(gi_call.solvent_properties)
    /\ DictKeys(gi_call.jobs) = {s_opt, s_esp}
    /\ \A i \in DOMAIN gi_call.jobs :
        s_SCRF \notin DictKeys(RouteOf(STANDARD_OPT_GUASSIAN_INPUT,
                                       gi_call.jobs[i].v).items)

-----------------------------------------------------------------------------
(* process_mol and process_run: src/infrastructure/gaussian/utils/utils.py *)

MaxRuns == 2
MaxTime == 2

PyBool(b) == [t |-> "bool", b |-> b]
PyObjectId(n) == [t |-> "ObjectId", oid |-> n]
PyDatetime(n) == [t |-> "datetime", ts |-> n]
\* a pymatgen Molecule: its sites (one number per atom) and its charge
Molecule(sites, charge) ==
    [t |-> "Molecule", sites |-> sites, charge |-> charge, local_opt |-> FALSE]
\* a parsed GaussianOutput object
GaussianOutput(sites) == [t |-> "GaussianOutput", sites |-> sites]
\* the argument of derive_molecule and of link_molecules: a dict of requests
DeriveRequest(func_grp, operation_type, mol) ==
    [t |-> "dict", func_grp |-> func_grp, operation_type |-> operation_type,
     mol |-> mol]
LinkRequest(operation_types, mols) ==
    [t |-> "dict", operation_types |-> operation_types, mols |-> mols]

s_output == <<"o", "u", "t", "p", "u", "t">>
s_molecule == <<"m", "o", "l", "e", "c", "u", "l", "e">>
s_id == <<"_", "i", "d">>
s_last_updated == <<"l", "a", "s", "t", "_", "u", "p", "d", "a", "t", "e", "d">>
s_at_module == <<"@", "m", "o", "d", "u", "l", "e">>
s_at_class == <<"@", "c", "l", "a", "s", "s">>
s_charge == <<"c", "h", "a", "r", "g", "e">>
s_spin_multiplicity ==
    <<"s", "p", "i", "n", "_", "m", "u", "l", "t", "i", "p", "l", "i", "c", "i", "t", "y">>
s_sites == <<"s", "i", "t", "e", "s">>
s_inchi == <<"i", "n", "c", "h", "i">>
s_input == <<"i", "n", "p", "u", "t">>

DigitChars == <<"0", "1", "2", "3", "4", "5", "6", "7", "8", "9">>

\* str(v) of line 243
str(v) ==
    CASE v.t = "ObjectId" -> PyStr(<<DigitChars[v.oid + 1]>>)
      [] v.t = "int" -> PyStr(<<DigitChars[v.n + 1]>>)
      [] v.t = "str" -> v
      [] OTHER -> PyStr(<<"o", "b", "j", "e", "c", "t">>)

\* ObjectId(s): the id a string denotes, -1 for bson.errors.InvalidId
ObjectIdOf(v) ==
    IF v.t = "str" /\ Len(v.s) = 1 /\ \E i \in DOMAIN DigitChars : DigitChars[i] = v.s[1]
    THEN (CHOOSE i \in DOMAIN DigitChars : DigitChars[i] = v.s[1]) - 1
    ELSE -1

\* key in container: "true", "false", or "TypeError" for a container that
\* is no container
PyIn(key, container) ==
    CASE container.t = "dict" ->
            IF HasKey(container.items, key) THEN "true" ELSE "false"
      [] container.t = "list" ->
            IF \E i \in DOMAIN container.elems : container.elems[i] = PyStr(key)
            THEN "true" ELSE "false"
      [] container.t = "str" ->
            IF contains(container.s, key) THEN "true" ELSE "false"
      [] OTHER -> "TypeError"

\* v[key] for a str key: [err, value]
Subscript(v, key) ==
    IF v.t = "dict"
    THEN IF HasKey(v.items, key)
         THEN [err |-> "none", value |-> GetItem(v.items, key)]
         ELSE [err |-> "KeyError", value |-> PyNone]
    ELSE [err |-> "TypeError", value |-> PyNone]

\* v["output"]["output"]["molecule"]
OutputOutputMolecule(v) ==
    LET a == Subscript(v, s_output)
        b == IF a.err = "none" THEN Subscript(a.value, s_output) ELSE a
        c == IF b.err = "none" THEN Subscript(b.value, s_molecule) ELSE b
    IN  c

\* Molecule.as_dict()
MoleculeAsDict(mol) ==
    PyDict(<<[k |-> s_at_module, v |-> PyStr(<<"p", "m", "g">>)],
             [k |-> s_at_class, v |-> PyStr(<<"M", "o", "l">>)],
             [k |-> s_charge, v |-> PyInt(mol.charge)],
             [k |-> s_spin_multiplicity, v |-> PyInt(1)],
             [k |-> s_sites,
              v |-> PyList([i \in DOMAIN mol.sites |-> PyInt(mol.sites[i])])]>>)

\* Molecule.from_dict(d)
MoleculeFromDict(d) ==
    LET sites == GetItem(d.items, s_sites).elems
    IN  Molecule([i \in DOMAIN sites |-> sites[i].n], GetItem(d.items, s_charge).n)

(* the environment: working directory, files, database *)

working_dir == <<"/", "w">>
\* files that exist, and those among them that are Gaussian output files
ExistingPaths == {<<"/", "w", "/", "a", ".", "x", "y", "z">>,
                  <<"/", "w", "/", "a", ".", "o", "u", "t">>}
GaussianOutputPaths == {<<"/", "w", "/", "a", ".", "o", "u", "t">>}

isabs(path) == startswith(path, <<"/">>)
join(dir, path) == IF isabs(path) THEN path ELSE dir \o <<"/">> \o path

\* the molecule and functional-group collections
StoredMolecules == {<<"A">>}
StoredFgs == {<<"O", "H">>}
Inchis == {<<"A">>, <<"B">>}

\* the run collections: documents in insertion order, document i with _id i
RunRecords == [inchi : Inchis, last_updated : 1..MaxTime]
RECURSIVE RunCollectionsUpTo(_)
RunCollectionsUpTo(n) ==
    IF n = 0 THEN {<<>>}
    ELSE LET shorter == RunCollectionsUpTo(n - 1)
         IN  shorter \cup {Append(c, r) : c \in {x \in shorter : Len(x) = n - 1},
                                          r \in RunRecords}

\* the document of the run collection at position i, as the driver returns it
RunDocument(i) ==
    PyDict(<<[k |-> s_id, v |-> PyObjectId(i)],
             [k |-> s_inchi, v |-> PyStr(db.runs[i].inchi)],
             [k |-> s_last_updated, v |-> PyDatetime(db.runs[i].last_updated)],
             [k |-> s_output,
              v |-> PyDict(<<[k |-> s_output,
                  v |-> PyDict(<<[k |-> s_molecule,
                                  v |-> MoleculeAsDict(Molecule(<<i>>, 0))]>>)]>>)]>>)

\* db.retrieve_molecule(inchi): the molecule document, or None
retrieve_molecule(inchi) ==
    IF inchi.t = "str" /\ inchi.s \in db.molecules
    THEN MoleculeAsDict(Molecule(<<20>>, 0)) ELSE PyNone

\* db.retrieve_fg(name): the functional group document, or None
retrieve_fg(name) ==
    IF name.s \in db.fgs THEN MoleculeAsDict(Molecule(<<30>>, 0)) ELSE PyNone

\* db.runs.find_one({"_id": oid}): the document, or None
find_one(oid) == IF oid \in DOMAIN db.runs THEN RunDocument(oid) ELSE PyNone

\* db.retrieve_run(**query): the list of the documents that match
retrieve_run(query) ==
    LET RECURSIVE Matching(_)
        Matching(i) ==
            IF i > Len(db.runs) THEN <<>>
            ELSE IF PyStr(db.runs[i].inchi) = GetItem(query.items, s_inchi)
                 THEN <<RunDocument(i)>> \o Matching(i + 1)
                 ELSE Matching(i + 1)
    IN  Matching(1)

\* the last matching document instead of the last updated one
Mutant_MaxByLastUpdated_last(run) == run[Len(run)]

\* max(run, key=lambda i: i["last_updated"]): the first document with the
\* greatest last_updated
MaxByLastUpdated(run) ==
    LET key(i) == GetItem(run[i].items, s_last_updated).ts
        best == CHOOSE i \in DOMAIN run :
                    /\ \A j \in DOMAIN run : key(j) <= key(i)
                    /\ \A j \in 1..(i - 1) : key(j) < key(i)
    IN  run[best]

(* The outcome of a call: "ok" and the returned value, or the exception's
   class and message; trace lists the steps the call ran, in order.  A step
   names the branch it belongs to ("-" outside the branches), the call it
   belongs to (<<>> the outer call, <<1>> and <<2>> the calls it makes) and
   whether it succeeded. *)
Ev(branch, step, at, ok) == [branch |-> branch, step |-> step, at |-> at, ok |-> ok]
Raised(outcome, msg, trace) ==
    [outcome |-> outcome, msg |-> msg, value |-> PyNone, trace |-> trace]
Returned(value, trace) ==
    [outcome |-> "ok", msg |-> "", value |-> value, trace |-> trace]
\* the steps of a call that ran before a later step's outcome
After(trace, r) == [r EXCEPT !.trace = trace \o @]

\* lines 57-62
mol_get_from_mol(mol, kwargs, at) ==
    IF mol.t # "Molecule"
    THEN Raised("Exception", "mol is not a Molecule object",
                <<Ev("get_from_mol", "isinstance", at, FALSE)>>)
    ELSE Returned(mol, <<Ev("get_from_mol", "isinstance", at, TRUE)>>)

\* lines 64-74
mol_get_from_file(mol, kwargs, at) ==
    IF mol.t # "str"
    THEN Raised("TypeError", "expected str, bytes or os.PathLike object",
                <<Ev("get_from_file", "os.path.isabs", at, FALSE)>>)
    ELSE LET file_path == IF ~isabs(mol.s) THEN join(working_dir, mol.s) ELSE mol.s
         IN  IF file_path \notin ExistingPaths
             THEN Raised("Exception", "mol is not a valid path",
                         <<Ev("get_from_file", "os.path.exists", at, FALSE)>>)
             ELSE Returned(Molecule(<<10>>, 0),
                           <<Ev("get_from_file", "os.path.exists", at, TRUE),
                             Ev("get_from_file", "Molecule.from_file", at, TRUE)>>)

\* lines 76-81
mol_get_from_str(mol, kwargs, at) ==
    IF kwargs.str_type = PyNone
    THEN Raised("ValueError", "a mol string format must be specified",
                <<Ev("get_from_str", "str_type", at, FALSE)>>)
    ELSE Returned(Molecule(<<11>>, 0),
                  <<Ev("get_from_str", "str_type", at, TRUE),
                    Ev("get_from_str", "Molecule.from_str", at, TRUE)>>)

\* lines 83-89
mol_get_from_mol_db(mol, kwargs, at) ==
    LET mol_dict == retrieve_molecule(mol)
    IN  IF ~Truthy(mol_dict)
        THEN Raised("Exception", "mol is not found in the database",
                    <<Ev("get_from_mol_db", "db.retrieve_molecule", at, FALSE)>>)
        ELSE Returned(MoleculeFromDict(mol_dict),
                      <<Ev("get_from_mol_db", "db.retrieve_molecule", at, TRUE),
                        Ev("get_from_mol_db", "Molecule.from_dict", at, TRUE)>>)

\* lines 91-97
mol_get_from_gout(mol, kwargs, at) ==
    IF mol.t # "GaussianOutput"
    THEN Raised("Exception", "mol is not a GaussianOutput object",
                <<Ev("get_from_gout", "isinstance", at, FALSE)>>)
    ELSE Returned(Molecule(mol.sites, 0),
                  <<Ev("get_from_gout", "isinstance", at, TRUE),
                    Ev("get_from_gout", "Molecule.from_dict", at, TRUE)>>)

\* The test of lines 100 and 212, not isinstance(x, dict) and "output" not in x:
\* "raise", "pass", or "TypeError" when the membership test itself fails.
NotARunDict(x) ==
    IF IsDict(x) THEN "pass"
    ELSE CASE PyIn(s_output, x) = "TypeError" -> "TypeError"
           [] PyIn(s_output, x) = "false" -> "raise"
           [] OTHER -> "pass"

\* lines 99-105
mol_get_from_run_dict(mol, kwargs, at) ==
    LET test == NotARunDict(mol)
        found == OutputOutputMolecule(mol)
    IN  CASE test = "TypeError" ->
               Raised("TypeError", "argument is not iterable",
                      <<Ev("get_from_run_dict", "isinstance", at, FALSE)>>)
          [] test = "raise" ->
               Raised("Exception", "mol is not a GaussianOutput dictionary",
                      <<Ev("get_from_run_dict", "isinstance", at, FALSE)>>)
          [] OTHER ->
               IF found.err # "none"
               THEN Raised(found.err, "",
                           <<Ev("get_from_run_dict", "isinstance", at, TRUE),
                             Ev("get_from_run_dict", "subscript", at, FALSE)>>)
               ELSE Returned(MoleculeFromDict(found.value),
                             <<Ev("get_from_run_dict", "isinstance", at, TRUE),
                               Ev("get_from_run_dict", "subscript", at, TRUE),
                               Ev("get_from_run_dict", "Molecule.from_dict", at, TRUE)>>)

\* lines 107-113
mol_get_from_run_id(mol, kwargs, at) ==
    IF ObjectIdOf(mol) < 0
    THEN Raised("InvalidId", "", <<Ev("get_from_run_id", "ObjectId", at, FALSE)>>)
    ELSE LET run == find_one(ObjectIdOf(mol))
         IN  IF ~Truthy(run)
             THEN Raised("Exception", "Gaussian run is not in the database",
                         <<Ev("get_from_run_id", "ObjectId", at, TRUE),
                           Ev("get_from_run_id", "db.runs.find_one", at, FALSE)>>)
             ELSE Returned(MoleculeFromDict(OutputOutputMolecule(run).value),
                           <<Ev("get_from_run_id", "ObjectId", at, TRUE),
                             Ev("get_from_run_id", "db.runs.find_one", at, TRUE),
                             Ev("get_from_run_id", "Molecule.from_dict", at, TRUE)>>)

\* lines 115-128
mol_get_from_run_query(mol, kwargs, at) ==
    LET run == retrieve_run(mol)
    IN  IF run = <<>>
        THEN Raised("Exception", "Gaussian run is not in the database",
                    <<Ev("get_from_run_query", "db.retrieve_run", at, FALSE)>>)
        ELSE Returned(
                MoleculeFromDict(OutputOutputMolecule(MaxByLastUpdated(run)).value),
                <<Ev("get_from_run_query", "db.retrieve_run", at, TRUE),
                  Ev("get_from_run_query", "max", at, TRUE),
                  Ev("get_from_run_query", "Molecule.from_dict", at, TRUE)>>)

\* lines 170-178: local optimization and charge assignment
mol_finish(output_mol, local_opt, kwargs, at) ==
    LET mol1 == IF local_opt THEN [output_mol EXCEPT !.local_opt = TRUE]
                ELSE output_mol
        charge == IF kwargs.charge # PyNone THEN kwargs.charge.n ELSE mol1.charge
    IN  Returned([mol1 EXCEPT !.charge = charge],
                 (IF local_opt THEN <<Ev("-", "perform_local_opt", at, TRUE)>>
                  ELSE <<>>) \o <<Ev("-", "set_charge_and_spin", at, TRUE)>>)

RECURSIVE process_mol(_, _, _, _, _)

\* lines 130-145; the call it makes is call <<1>> of this call
mol_derive_molecule(mol, kwargs, at) ==
    IF ~Truthy(mol.func_grp)
    THEN Raised("Exception", "No FG provided",
                <<Ev("derive_molecule", "func_grp", at, FALSE)>>)
    ELSE LET fg_dict == retrieve_fg(mol.func_grp)
             steps == <<Ev("derive_molecule", "func_grp", at, TRUE),
                        Ev("derive_molecule", "db.retrieve_fg", at, Truthy(fg_dict))>>
         IN  IF ~Truthy(fg_dict)
             THEN Raised("Exception", "FG is not found in the database", steps)
             ELSE LET fg == MoleculeFromDict(fg_dict)
                      inner == process_mol(mol.operation_type, mol.mol, FALSE, kwargs,
                                           Append(at, 1))
                  IN  IF inner.outcome # "ok" THEN After(steps, inner)
                      ELSE Returned(
                             [inner.value EXCEPT !.sites = @ \o fg.sites],
                             steps \o inner.trace
                                   \o <<Ev("derive_molecule", "substitute", at, TRUE)>>)

\* link_molecules that processes the second molecule although the first failed
Mutant_mol_link_molecules_continues(mol, kwargs, at) ==
    LET linking == process_mol(mol.operation_types[1], mol.mols[1], FALSE, kwargs,
                               Append(at, 1))
        linked == process_mol(mol.operation_types[2], mol.mols[2], FALSE, kwargs,
                              Append(at, 2))
        first == <<Ev("link_molecules", "linking_mol", at, TRUE)>> \o linking.trace
        second == first \o <<Ev("link_molecules", "linked_mol", at, TRUE)>>
    IN  IF linking.outcome # "ok" THEN [linking EXCEPT !.trace = second \o linked.trace]
        ELSE IF linked.outcome # "ok" THEN After(second, linked)
        ELSE Returned([linking.value EXCEPT !.sites = @ \o linked.value.sites],
                      second \o linked.trace
                          \o <<Ev("link_molecules", "link", at, TRUE)>>)

\* lines 147-165; the calls it makes are calls <<1>> and <<2>> of this call
mol_link_molecules(mol, kwargs, at) ==
    LET linking == process_mol(mol.operation_types[1], mol.mols[1], FALSE, kwargs,
                               Append(at, 1))
        linked == process_mol(mol.operation_types[2], mol.mols[2], FALSE, kwargs,
                              Append(at, 2))
        first == <<Ev("link_molecules", "linking_mol", at, TRUE)>> \o linking.trace
        second == first \o <<Ev("link_molecules", "linked_mol", at, TRUE)>>
    IN  IF linking.outcome # "ok" THEN [linking EXCEPT !.trace = first]
        ELSE IF linked.outcome # "ok" THEN After(second, linked)
        ELSE Returned([linking.value EXCEPT !.sites = @ \o linked.value.sites],
                      second \o linked.trace
                          \o <<Ev("link_molecules", "link", at, TRUE)>>)

\* lines 57-168: the dispatch on operation_type
mol_branch(operation_type, mol, kwargs, at) ==
    CASE operation_type = "get_from_mol" -> mol_get_from_mol(mol, kwargs, at)
      [] operation_type = "get_from_file" -> mol_get_from_file(mol, kwargs, at)
      [] operation_type = "get_from_str" -> mol_get_from_str(mol, kwargs, at)
      [] operation_type = "get_from_mol_db" -> mol_get_from_mol_db(mol, kwargs, at)
      [] operation_type = "get_from_gout" -> mol_get_from_gout(mol, kwargs, at)
      [] operation_type = "get_from_run_dict" -> mol_get_from_run_dict(mol, kwargs, at)
      [] operation_type = "get_from_run_id" -> mol_get_from_run_id(mol, kwargs, at)
      [] operation_type = "get_from_run_query" -> mol_get_from_run_query(mol, kwargs, at)
      [] operation_type = "derive_molecule" -> mol_derive_molecule(mol, kwargs, at)
      [] operation_type = "link_molecules" -> mol_link_molecules(mol, kwargs, at)
      [] OTHER -> Raised("ValueError", "operation type is not supported",
                         <<Ev("else", "raise", at, FALSE)>>)

\* process_mol(operation_type, mol, local_opt, **kwargs), as call `at`
process_mol(operation_type, mol, local_opt, kwargs, at) ==
    IF kwargs.db # "usable"
    THEN Raised("FileNotFoundError", "Please provide the database configurations",
                <<Ev("-", "get_db", at, FALSE)>>)
    ELSE LET got == mol_branch(operation_type, mol, kwargs, at)
         IN  IF got.outcome # "ok"
             THEN After(<<Ev("-", "get_db", at, TRUE)>>, got)
             ELSE After(<<Ev("-", "get_db", at, TRUE)>> \o got.trace,
                        mol_finish(got.value, local_opt, kwargs, at))

(* process_run *)

s_nsites == <<"n", "s", "i", "t", "e", "s">>
s_is_pcm == <<"i", "s", "_", "p", "c", "m">>
s_nbasisfunctions ==
    <<"n", "b", "a", "s", "i", "s", "f", "u", "n", "c", "t", "i", "o", "n", "s">>
s_pcm_parameters ==
    <<"p", "c", "m", "_", "p", "a", "r", "a", "m", "e", "t", "e", "r", "s">>

\* GaussianOutput.as_dict(), with the keys the utilities read or delete
GaussianOutputAsDict(gout) ==
    PyDict(<<[k |-> s_at_module, v |-> PyStr(<<"p", "m", "g">>)],
             [k |-> s_at_class, v |-> PyStr(<<"G", "O", "u", "t">>)],
             [k |-> s_charge, v |-> PyInt(0)],
             [k |-> s_spin_multiplicity, v |-> PyInt(1)],
             [k |-> s_nsites, v |-> PyInt(Len(gout.sites))],
             [k |-> s_is_pcm, v |-> PyBool(FALSE)],
             [k |-> s_input,
              v |-> PyDict(<<[k |-> s_functional, v |-> PyStr(<<"B", "3", "L", "Y", "P">>)],
                             [k |-> s_basis_set, v |-> PyStr(<<"6", "-", "3", "1", "G">>)],
                             [k |-> s_route_parameters,
                              v |-> PyDict(<<[k |-> s_Opt, v |-> PyNone],
                                             [k |-> <<"F", "r", "e", "q">>, v |-> PyNone]>>)],
                             [k |-> s_nbasisfunctions, v |-> PyInt(7)],
                             [k |-> s_pcm_parameters, v |-> PyNone]>>)],
             [k |-> s_output,
              v |-> PyDict(<<[k |-> s_molecule,
                              v |-> MoleculeAsDict(Molecule(gout.sites, 0))]>>)]>>)

\* GaussianInput.from_file(input_path).as_dict()
GaussianInputAsDict ==
    PyDict(<<[k |-> s_at_module, v |-> PyStr(<<"p", "m", "g">>)],
             [k |-> s_at_class, v |-> PyStr(<<"G", "I", "n">>)],
             [k |-> s_functional, v |-> PyStr(<<"B", "3", "L", "Y", "P">>)],
             [k |-> s_basis_set, v |-> PyStr(<<"6", "-", "3", "1", "G">>)],
             [k |-> s_route_parameters, v |-> PyDict(<<[k |-> s_Opt, v |-> PyNone]>>)],
             [k |-> s_input_parameters,
              v |-> PyDict(<<[k |-> s_EPS, v |-> PyStr(<<"1", "2">>)]>>)]>>)

\* [d.pop(k, None) for k in keys]
RECURSIVE PopAll(_, _)
PopAll(d, keys) ==
    IF keys = <<>> THEN d
    ELSE PopAll(IF HasKey(d, Head(keys)) THEN DelItem(d, Head(keys)) ELSE d, Tail(keys))

\* the keys of d that are not in keys, in order
RECURSIVE WithoutKeys(_, _)
WithoutKeys(d, keys) ==
    IF d = <<>> THEN <<>>
    ELSE (IF Head(d).k \in keys THEN <<>> ELSE <<Head(d)>>) \o WithoutKeys(Tail(d), keys)

_modify_gout(gout) ==
    LET input == GetItem(gout.items, s_input).items
        input1 == SetItem(SetItem(input, s_charge, GetItem(gout.items, s_charge)),
                          s_spin_multiplicity, GetItem(gout.items, s_spin_multiplicity))
    IN  PyDict(PopAll(SetItem(gout.items, s_input, PyDict(input1)),
                      <<s_nsites, s_charge, s_spin_multiplicity>>))

_create_gin(gout, input_file) ==
    LET input == GetItem(gout.items, s_input).items
    IN  IF Truthy(input_file)
        THEN PyDict(SetItem(SetItem(GaussianInputAsDict.items, s_nbasisfunctions,
                                    GetItem(input, s_nbasisfunctions)),
                            s_pcm_parameters, GetItem(input, s_pcm_parameters)))
        ELSE PyDict(SetItem(SetItem(SetItem(input, s_input_parameters, PyNone),
                                    s_at_class,
                                    PyStr(<<"G", "a", "u", "s", "s", "i", "a", "n",
                                            "I", "n", "p", "u", "t">>)),
                            s_at_module,
                            PyStr(<<"p", "y", "m", "a", "t", "g", "e", "n", ".", "i",
                                    "o", ".", "g", "a", "u", "s", "s", "i", "a", "n">>)))

\* JOB_TYPES in sorted order, so that filtering it is sorted(filter(...))
SortedJobTypes ==
    <<<<"f", "r", "e", "q">>, <<"n", "m", "r">>, s_opt, <<"p", "o", "p">>,
      <<"s", "c", "a", "n">>, s_scrf, s_sp>>

\* ";".join(parts)
RECURSIVE JoinSemicolon(_)
JoinSemicolon(parts) ==
    IF parts = <<>> THEN <<>>
    ELSE IF Len(parts) = 1 THEN parts[1]
    ELSE parts[1] \o <<";">> \o JoinSemicolon(Tail(parts))

_job_types(gin) ==
    LET keys == LowerKeys(GetItem(gin.items, s_route_parameters).items)
        RECURSIVE Filter(_)
        Filter(types) ==
            IF types = <<>> THEN <<>>
            ELSE (IF Head(types) \in keys THEN <<Head(types)>> ELSE <<>>)
                 \o Filter(Tail(types))
    IN  Filter(SortedJobTypes)

\* get_chem_schema(mol): the molecule's dict and its chemical identifiers
get_chem_schema(mol) ==
    PyDict(Update(MoleculeAsDict(mol).items,
                  <<[k |-> <<"s", "m", "i", "l", "e", "s">>, v |-> PyStr(<<"C">>)],
                    [k |-> s_inchi, v |-> PyStr(<<"A">>)],
                    [k |-> s_nsites, v |-> PyInt(Len(mol.sites))]>>))

_cleanup_gout(gout0, input_file) ==
    LET gout1 == _modify_gout(gout0)
        gin == _create_gin(gout1, input_file)
        gout == PyDict(DelItem(gout1.items, s_input))
        job_types == _job_types(gin)
        mol == MoleculeFromDict(GetItem(GetItem(gout.items, s_output).items, s_molecule))
        gout_dict ==
            Update(<<[k |-> s_input, v |-> gin],
                     [k |-> s_output, v |-> gout],
                     [k |-> s_functional, v |-> GetItem(gin.items, s_functional)],
                     [k |-> <<"b", "a", "s", "i", "s">>, v |-> GetItem(gin.items, s_basis_set)],
                     [k |-> <<"p", "h", "a", "s", "e">>,
                      v |-> IF GetItem(gout.items, s_is_pcm).b
                            THEN PyStr(<<"s", "o", "l", "u", "t", "i", "o", "n">>)
                            ELSE PyStr(<<"g", "a", "s">>)],
                     [k |-> <<"t", "y", "p", "e">>, v |-> PyStr(JoinSemicolon(job_types))]>>,
                   get_chem_schema(mol).items)
    IN  PyDict(WithoutKeys(gout_dict, {s_sites, s_at_module, s_at_class, s_charge,
                                       s_spin_multiplicity}))

\* whether json.dumps accepts v
RECURSIVE JsonSerializable(_)
JsonSerializable(v) ==
    CASE v.t = "dict" -> \A i \in DOMAIN v.items : JsonSerializable(v.items[i].v)
      [] v.t = "list" -> \A i \in DOMAIN v.elems : JsonSerializable(v.elems[i])
      [] v.t \in {"str", "int", "bool", "None"} -> TRUE
      [] OTHER -> FALSE

\* json.loads(json.dumps(v)) of a serializable v: new containers with the
\* same str keys, numbers, strings, booleans and None
RECURSIVE JsonRoundTrip(_)
JsonRoundTrip(v) ==
    CASE v.t = "dict" ->
            PyDict([i \in DOMAIN v.items |->
                      [k |-> v.items[i].k, v |-> JsonRoundTrip(v.items[i].v)]])
      [] v.t = "list" -> PyList([i \in DOMAIN v.elems |-> JsonRoundTrip(v.elems[i])])
      [] OTHER -> v

RECURSIVE recursive_signature_remove(_)
recursive_signature_remove(d) ==
    IF IsDict(d)
    THEN LET RECURSIVE Kept(_)
             Kept(items) ==
                IF items = <<>> THEN <<>>
                ELSE (IF ~startswith(Head(items).k, <<"@">>)
                      THEN <<[k |-> Head(items).k,
                              v |-> recursive_signature_remove(Head(items).v)]>>
                      ELSE <<>>) \o Kept(Tail(items))
         IN  PyDict(Kept(d.items))
    ELSE d

\* the outcome of process_run carries the caller's run object after the call
RunRaised(outcome, msg, trace, run_after) ==
    [outcome |-> outcome, msg |-> msg, value |-> PyNone, trace |-> trace,
     run_after |-> run_after]
RunReturned(value, trace, run_after) ==
    [outcome |-> "ok", msg |-> "", value |-> value, trace |-> trace,
     run_after |-> run_after]

\* lines 185-191
run_get_from_gout(run, input_file) ==
    IF run.t # "GaussianOutput"
    THEN RunRaised("Exception", "run is not a GaussianOutput object",
                   <<Ev("get_from_gout", "isinstance", <<>>, FALSE)>>, run)
    ELSE RunReturned(_cleanup_gout(GaussianOutputAsDict(run), input_file),
                     <<Ev("get_from_gout", "isinstance", <<>>, TRUE),
                       Ev("get_from_gout", "_cleanup_gout", <<>>, TRUE)>>, run)

\* lines 193-209
run_get_from_file(run, input_file) ==
    IF run.t # "str"
    THEN RunRaised("TypeError", "expected str, bytes or os.PathLike object",
                   <<Ev("get_from_file", "os.path.isabs", <<>>, FALSE)>>, run)
    ELSE LET file_path == IF ~isabs(run.s) THEN join(working_dir, run.s) ELSE run.s
         IN  IF file_path \notin ExistingPaths
             THEN RunRaised("Exception", "run is not a valid path",
                            <<Ev("get_from_file", "os.path.exists", <<>>, FALSE)>>, run)
             ELSE IF file_path \notin GaussianOutputPaths
             THEN RunRaised("ValueError", "run is not a Gaussian output file",
                            <<Ev("get_from_file", "os.path.exists", <<>>, TRUE),
                              Ev("get_from_file", "GaussianOutput", <<>>, FALSE)>>, run)
             ELSE RunReturned(
                    _cleanup_gout(GaussianOutputAsDict(GaussianOutput(<<12>>)), input_file),
                    <<Ev("get_from_file", "os.path.exists", <<>>, TRUE),
                      Ev("get_from_file", "GaussianOutput", <<>>, TRUE),
                      Ev("get_from_file", "_cleanup_gout", <<>>, TRUE)>>, run)

\* lines 211-216
run_get_from_run_dict(run, input_file) ==
    LET test == NotARunDict(run)
    IN  CASE test = "TypeError" ->
               RunRaised("TypeError", "argument is not iterable",
                         <<Ev("get_from_run_dict", "isinstance", <<>>, FALSE)>>, run)
          [] test = "raise" ->
               RunRaised("Exception", "run is not a GaussianOutput dictionary",
                         <<Ev("get_from_run_dict", "isinstance", <<>>, FALSE)>>, run)
          [] OTHER ->
               RunReturned(run, <<Ev("get_from_run_dict", "isinstance", <<>>, TRUE)>>, run)

\* the get_from_run_id branch of process_run without the test of lines 220-221
Mutant_run_get_from_run_id_unchecked(run, input_file) ==
    IF ObjectIdOf(run) < 0
    THEN RunRaised("InvalidId", "",
                   <<Ev("get_from_run_id", "ObjectId", <<>>, FALSE)>>, run)
    ELSE RunReturned(find_one(ObjectIdOf(run)),
                     <<Ev("get_from_run_id", "ObjectId", <<>>, TRUE),
                       Ev("get_from_run_id", "db.runs.find_one", <<>>, TRUE)>>,
                     run)

\* lines 218-223
run_get_from_run_id(run, input_file) ==
    IF ObjectIdOf(run) < 0
    THEN RunRaised("InvalidId", "",
                   <<Ev("get_from_run_id", "ObjectId", <<>>, FALSE)>>, run)
    ELSE LET found == find_one(ObjectIdOf(run))
         IN  IF ~Truthy(found)
             THEN RunRaised("Exception", "Gaussian run is not in the database",
                            <<Ev("get_from_run_id", "ObjectId", <<>>, TRUE),
                              Ev("get_from_run_id", "db.runs.find_one", <<>>, FALSE)>>,
                            run)
             ELSE RunReturned(found,
                              <<Ev("get_from_run_id", "ObjectId", <<>>, TRUE),
                                Ev("get_from_run_id", "db.runs.find_one", <<>>, TRUE)>>,
                              run)

\* lines 225-237
run_get_from_run_query(run, input_file) ==
    LET found == retrieve_run(run)
    IN  IF found = <<>>
        THEN RunRaised("Exception", "Gaussian run is not in the database",
                       <<Ev("get_from_run_query", "db.retrieve_run", <<>>, FALSE)>>, run)
        ELSE RunReturned(MaxByLastUpdated(found),
                         <<Ev("get_from_run_query", "db.retrieve_run", <<>>, TRUE),
                           Ev("get_from_run_query", "max", <<>>, TRUE)>>, run)

\* the dispatch of process_run with an else branch that treats every other
\* tag as get_from_gout
Mutant_run_branch_else_gout(operation_type, run, input_file) ==
    CASE operation_type = "get_from_file" -> run_get_from_file(run, input_file)
      [] operation_type = "get_from_run_dict" -> run_get_from_run_dict(run, input_file)
      [] operation_type = "get_from_run_id" -> run_get_from_run_id(run, input_file)
      [] operation_type = "get_from_run_query" -> run_get_from_run_query(run, input_file)
      [] OTHER -> run_get_from_gout(run, input_file)

\* lines 185-240: the dispatch on operation_type
run_branch(operation_type, run, input_file) ==
    CASE operation_type = "get_from_gout" -> run_get_from_gout(run, input_file)
      [] operation_type = "get_from_file" -> run_get_from_file(run, input_file)
      [] operation_type = "get_from_run_dict" -> run_get_from_run_dict(run, input_file)
      [] operation_type = "get_from_run_id" -> run_get_from_run_id(run, input_file)
      [] operation_type = "get_from_run_query" -> run_get_from_run_query(run, input_file)
      [] OTHER -> RunRaised("ValueError", "operation type is not supported",
                            <<Ev("else", "raise", <<>>, FALSE)>>, run)

\* lines 242-243: if "_id" in gout_dict: gout_dict["_id"] = str(gout_dict["_id"])
\* [err, value]; a list or str that holds "_id" takes no item assignment
ConvertId(gout_dict) ==
    CASE PyIn(s_id, gout_dict) = "false" -> [err |-> "none", value |-> gout_dict]
      [] PyIn(s_id, gout_dict) = "true" /\ IsDict(gout_dict) ->
            [err |-> "none",
             value |-> PyDict(SetItem(gout_dict.items, s_id,
                                      str(GetItem(gout_dict.items, s_id))))]
      [] OTHER -> [err |-> "TypeError", value |-> gout_dict]

\* lines 244-245 left out
Mutant_DeleteLastUpdated_skipped(gout_dict) == [err |-> "none", value |-> gout_dict]

\* lines 244-245: if "last_updated" in gout_dict: del gout_dict["last_updated"]
DeleteLastUpdated(gout_dict) ==
    CASE PyIn(s_last_updated, gout_dict) = "false" ->
            [err |-> "none", value |-> gout_dict]
      [] PyIn(s_last_updated, gout_dict) = "true" /\ IsDict(gout_dict) ->
            [err |-> "none", value |-> PyDict(DelItem(gout_dict.items, s_last_updated))]
      [] OTHER -> [err |-> "TypeError", value |-> gout_dict]

\* lines 242-249; shared tells that gout_dict is the caller's run object
run_finish(gout_dict, shared, run) ==
    LET a == ConvertId(gout_dict)
        b == DeleteLastUpdated(a.value)
        after(v) == IF shared THEN v ELSE run
        e1 == <<Ev("-", "str(_id)", <<>>, a.err = "none")>>
        e2 == e1 \o <<Ev("-", "del last_updated", <<>>, b.err = "none")>>
        e3 == e2 \o <<Ev("-", "json", <<>>, JsonSerializable(b.value))>>
    IN  IF a.err # "none" THEN RunRaised(a.err, "", e1, after(a.value))
        ELSE IF b.err # "none" THEN RunRaised(b.err, "", e2, after(b.value))
        ELSE IF ~JsonSerializable(b.value)
        THEN RunRaised("TypeError", "Object is not JSON serializable", e3,
                       after(b.value))
        ELSE RunReturned(recursive_signature_remove(JsonRoundTrip(b.value)),
                         e3 \o <<Ev("-", "recursive_signature_remove", <<>>, TRUE)>>,
                         after(b.value))

\* process_run(operation_type, run, input_file, **kwargs)
process_run(operation_type, run, input_file, kwargs) ==
    IF kwargs.db # "usable"
    THEN RunRaised("FileNotFoundError", "Please provide the database configurations",
                   <<Ev("-", "get_db", <<>>, FALSE)>>, run)
    ELSE LET got == run_branch(operation_type, run, input_file)
         IN  IF got.outcome # "ok"
             THEN After(<<Ev("-", "get_db", <<>>, TRUE)>>, got)
             ELSE After(<<Ev("-", "get_db", <<>>, TRUE)>> \o got.trace,
                        run_finish(got.value, operation_type = "get_from_run_dict", run))

(* The calls of process_mol and process_run *)

s_a_xyz == <<"a", ".", "x", "y", "z">>
s_b_xyz == <<"b", ".", "x", "y", "z">>
s_a_out == <<"a", ".", "o", "u", "t">>
s_abs_a_out == <<"/", "w", "/", "a", ".", "o", "u", "t">>
s_a_com == <<"a", ".", "c", "o", "m">>

Request(operation_type, mol) == [operation_type |-> operation_type, mol |-> mol]

\* a run document's output part, holding the molecule with the given sites
OutputOf(sites) ==
    PyDict(<<[k |-> s_at_class, v |-> PyStr(<<"G", "O", "u", "t">>)],
             [k |-> s_output,
              v |-> PyDict(<<[k |-> s_molecule,
                              v |-> MoleculeAsDict(Molecule(sites, 0))]>>)]>>)

\* what callers pass with get_from_run_dict: run documents as the database
\* and as json hold them, and values that are no run documents
RunDictArgs ==
    { PyDict(<<[k |-> s_id, v |-> PyObjectId(7)],
               [k |-> s_last_updated, v |-> PyDatetime(1)],
               [k |-> s_at_module, v |-> PyStr(<<"p", "m", "g">>)],
               [k |-> s_output, v |-> OutputOf(<<40>>)]>>),
      PyDict(<<[k |-> s_id, v |-> PyInt(7)],
               [k |-> s_last_updated, v |-> PyStr(<<"x">>)],
               [k |-> s_output, v |-> OutputOf(<<41>>)]>>),
      PyDict(<<[k |-> s_output, v |-> OutputOf(<<42>>)],
               [k |-> s_sites,
                v |-> PyList(<<PyDict(<<[k |-> s_at_class, v |-> PyStr(<<"S">>)],
                                        [k |-> s_charge, v |-> PyInt(0)]>>)>>)]>>),
      PyDict(<<[k |-> s_output,
                v |-> PyDict(<<[k |-> s_last_updated, v |-> PyDatetime(1)],
                               [k |-> s_output, v |-> OutputOf(<<43>>)]>>)]>>),
      PyDict(<<[k |-> s_inchi, v |-> PyStr(<<"A">>)]>>),
      PyList(<<PyStr(s_output)>>),
      PyList(<<PyStr(s_id), PyStr(s_output)>>),
      PyList(<<>>),
      PyStr(s_output),
      PyInt(5) }

RunIdArgs == {PyStr(<<DigitChars[i + 1]>>) : i \in 1..(MaxRuns + 1)} \cup {PyStr(<<"x">>)}

RunQueryArgs == {PyDict(<<[k |-> s_inchi, v |-> PyStr(i)]>>) : i \in Inchis}

\* the requests of process_mol: those it serves without calling itself, and
\* derive_molecule and link_molecules over a few nested requests
MolRequests ==
    LET simple ==
            {Request("get_from_mol", m) :
                m \in {Molecule(<<40>>, 0), PyStr(s_a_xyz), GaussianOutput(<<12>>)}}
            \cup {Request("get_from_file", PyStr(f)) :
                    f \in {s_a_xyz, s_abs_a_out, s_b_xyz}}
            \cup {Request("get_from_str", PyStr(<<"C">>))}
            \cup {Request("get_from_mol_db", PyStr(i)) : i \in Inchis}
            \cup {Request("get_from_gout", m) :
                    m \in {GaussianOutput(<<12>>), Molecule(<<40>>, 0)}}
            \cup {Request("get_from_run_dict", d) : d \in RunDictArgs}
            \cup {Request("get_from_run_id", i) : i \in RunIdArgs}
            \cup {Request("get_from_run_query", q) : q \in RunQueryArgs}
            \cup {Request("get_from_smiles", PyStr(<<"C">>))}
        nested ==
            { Request("get_from_mol", Molecule(<<40>>, 0)),
              Request("get_from_file", PyStr(s_b_xyz)),
              Request("get_from_mol_db", PyStr(<<"A">>)),
              Request("get_from_run_query",
                      PyDict(<<[k |-> s_inchi, v |-> PyStr(<<"A">>)]>>)),
              Request("get_from_smiles", PyStr(<<"C">>)) }
        derive ==
            {Request("derive_molecule", DeriveRequest(fg, r.operation_type, r.mol)) :
                fg \in {PyNone, PyStr(<<"O", "H">>), PyStr(<<"X">>)}, r \in nested}
        linked ==
            nested \cup
            {Request("derive_molecule",
                     DeriveRequest(PyStr(<<"O", "H">>), "get_from_mol",
                                   Molecule(<<40>>, 0)))}
        link ==
            {Request("link_molecules",
                     LinkRequest(<<x.operation_type, y.operation_type>>,
                                 <<x.mol, y.mol>>)) :
                x \in linked, y \in linked}
    IN  simple \cup derive \cup link

RunRequests ==
    {Request("get_from_gout", m) : m \in {GaussianOutput(<<12>>), Molecule(<<40>>, 0)}}
    \cup {Request("get_from_file", PyStr(f)) :
            f \in {s_a_out, s_abs_a_out, s_a_xyz, s_b_xyz}}
    \cup {Request("get_from_run_dict", d) : d \in RunDictArgs}
    \cup {Request("get_from_run_id", i) : i \in RunIdArgs}
    \cup {Request("get_from_run_query", q) : q \in RunQueryArgs}
    \cup {Request("get_from_mol", Molecule(<<40>>, 0)),
          Request("get_from_smiles", PyStr(<<"C">>))}

\* **kwargs: db names a usable configuration or none is found
KwargsArgs ==
    { [db |-> "usable", str_type |-> PyNone, charge |-> PyNone],
      [db |-> "usable", str_type |-> PyStr(<<"x", "y", "z">>), charge |-> PyInt(1)],
      [db |-> "missing", str_type |-> PyNone, charge |-> PyNone] }

InputFileArgs == {PyNone, PyStr(s_a_com)}

\* process_mol(operation_type, mol, local_opt, **kwargs)
CallProcessMol ==
    /\ pm_call.fn = "none"
    /\ \E req \in MolRequests, local_opt \in BOOLEAN, kwargs \in KwargsArgs :
        LET r == process_mol(req.operation_type, req.mol, local_opt, kwargs, <<>>)
        IN  pm_call' = [fn |-> "process_mol", operation_type |-> req.operation_type,
                        arg |-> req.mol, run_after |-> req.mol,
                        local_opt |-> local_opt, input_file |-> PyNone,
                        kwargs |-> kwargs, outcome |-> r.outcome, msg |-> r.msg,
                        value |-> r.value, trace |-> r.trace]
    /\ UNCHANGED <<STANDARD_OPT_GUASSIAN_INPUT, gi_call, db, wf, fw_state, parse_call, ff_call, gout_call, ff_dicts>>

\* process_run(operation_type, run, input_file, **kwargs)
CallProcessRun ==
    /\ pm_call.fn = "none"
    /\ \E req \in RunRequests, input_file \in InputFileArgs, kwargs \in KwargsArgs :
        LET r == process_run(req.operation_type, req.mol, input_file, kwargs)
        IN  pm_call' = [fn |-> "process_run", operation_type |-> req.operation_type,
                        arg |-> req.mol, run_after |-> r.run_after,
                        local_opt |-> FALSE, input_file |-> input_file,
                        kwargs |-> kwargs, outcome |-> r.outcome, msg |-> r.msg,
                        value |-> r.value, trace |-> r.trace]
    /\ UNCHANGED <<STANDARD_OPT_GUASSIAN_INPUT, gi_call, db, wf, fw_state, parse_call, ff_call, gout_call, ff_dicts>>

\* the caller takes the result or the exception; the next call can start
ReturnProcess ==
    /\ pm_call.fn # "none"
    /\ pm_call' = NoPmCall
    /\ UNCHANGED <<STANDARD_OPT_GUASSIAN_INPUT, gi_call, db, wf, fw_state, parse_call, ff_call, gout_call, ff_dicts>>

\* the database holds one molecule, one functional group and any runs
InitMol ==
    /\ STANDARD_OPT_GUASSIAN_INPUT = StandardOptInput
    /\ gi_call = NoGiCall
    /\ db \in [molecules : {StoredMolecules}, fgs : {StoredFgs},
               runs : RunCollectionsUpTo(MaxRuns)]
    /\ pm_call = NoPmCall
    /\ wf = NoWorkflow
    /\ fw_state = NoFwState
    /\ parse_call = NoParseCall
    /\ ff_call = NoFfCall
    /\ gout_call = NoGoutCall
    /\ ff_dicts = NoFfDicts

NextMol == CallProcessMol \/ CallProcessRun \/ ReturnProcess

SpecMol == InitMol /\ [][NextMol]_vars

(* Claims about process_mol and process_run *)

MolTags ==
    {"get_from_mol", "get_from_file", "get_from_str", "get_from_mol_db",
     "get_from_gout", "get_from_run_dict", "get_from_run_id", "get_from_run_query",
     "derive_molecule", "link_molecules"}
RunTags ==
    {"get_from_gout", "get_from_file", "get_from_run_dict", "get_from_run_id",
     "get_from_run_query"}
SupportedTags == IF pm_call.fn = "process_mol" THEN MolTags ELSE RunTags

\* a call of process_mol or process_run has ended, with a usable database
Called == pm_call.fn # "none" /\ pm_call.kwargs.db = "usable"
\* the steps of the call itself, without those of the calls it makes
OwnSteps == {i \in DOMAIN pm_call.trace : pm_call.trace[i].at = <<>>}

\* C2: with a usable database configuration, process_mol and process_run
\* raise ValueError and return nothing for every operation_type outside their
\* supported tags, and for a supported tag the steps of the call's branches
\* are all steps of that tag's branch, which is entered.
C2_Dispatch ==
    Called =>
      IF pm_call.operation_type \notin SupportedTags
      THEN /\ pm_call.outcome = "ValueError"
           /\ pm_call.value = PyNone
           /\ \A i \in OwnSteps : pm_call.trace[i].branch \in {"-", "else"}
      ELSE /\ \E i \in OwnSteps : pm_call.trace[i].branch = pm_call.operation_type
           /\ \A i \in OwnSteps :
                 pm_call.trace[i].branch \in {"-", pm_call.operation_type}

\* C2 witness: process_run was called with get_from_mol, a tag of process_mol
\* only, and raised ValueError.
C2_Witness ==
    /\ Called
    /\ pm_call.fn = "process_run"
    /\ pm_call.operation_type = "get_from_mol"
    /\ pm_call.outcome = "ValueError"

\* the input is not a GaussianOutput dictionary
NotGaussianOutputDict(x) == ~IsDict(x) \/ ~HasKey(x.items, s_output)

\* C3: with get_from_run_dict, process_mol and process_run raise the
\* "not a GaussianOutput dictionary" exception whenever the input is not a dict
\* or is a dict without an "output" key, and no other error escapes.
C3_RunDictValidation_AsStated ==
    (/\ Called
     /\ pm_call.operation_type = "get_from_run_dict"
     /\ NotGaussianOutputDict(pm_call.arg))
    => /\ pm_call.outcome = "Exception"
       /\ pm_call.msg \in {"mol is not a GaussianOutput dictionary",
                           "run is not a GaussianOutput dictionary"}

\* the documents of the run collection that match a query
MatchingRuns(query) ==
    {i \in DOMAIN db.runs : PyStr(db.runs[i].inchi) = GetItem(query.items, s_inchi)}

\* the call's lookup in the database yields nothing
EmptyLookup ==
    \/ /\ pm_call.fn = "process_mol"
       /\ pm_call.operation_type = "get_from_mol_db"
       /\ pm_call.arg.s \notin db.molecules
    \/ /\ pm_call.operation_type = "get_from_run_id"
       /\ ObjectIdOf(pm_call.arg) >= 0
       /\ ObjectIdOf(pm_call.arg) \notin DOMAIN db.runs
    \/ /\ pm_call.operation_type = "get_from_run_query"
       /\ MatchingRuns(pm_call.arg) = {}
    \/ /\ pm_call.operation_type = "derive_molecule"
       /\ \/ pm_call.arg.func_grp = PyNone
          \/ pm_call.arg.func_grp.s \notin db.fgs

\* C4: whenever a lookup in the database yields nothing (retrieve_molecule,
\* find_one, retrieve_run, retrieve_fg, or no func_grp given), the call raises
\* an exception and returns no molecule or run.
C4_EmptyLookupRaises ==
    (Called /\ EmptyLookup) =>
        /\ pm_call.outcome = "Exception"
        /\ pm_call.value = PyNone

\* C4 witness: process_run looked up a run id that is not in a non-empty run
\* collection, and raised.
C4_Witness ==
    /\ Called
    /\ pm_call.fn = "process_run"
    /\ pm_call.operation_type = "get_from_run_id"
    /\ db.runs # <<>>
    /\ EmptyLookup
    /\ pm_call.outcome = "Exception"

\* document i matches the call's query and no matching document was updated
\* later
IsLastUpdated(i) ==
    /\ i \in MatchingRuns(pm_call.arg)
    /\ \A j \in MatchingRuns(pm_call.arg) :
          db.runs[j].last_updated <= db.runs[i].last_updated

\* C5: with get_from_run_query, the molecule (process_mol) or run
\* (process_run) returned comes from a matching document whose last_updated is
\* greater than or equal to that of every other matching document.
C5_LastUpdatedUsed ==
    (/\ Called
     /\ pm_call.operation_type = "get_from_run_query"
     /\ pm_call.outcome = "ok")
    => \E i \in DOMAIN db.runs :
          /\ IsLastUpdated(i)
          /\ IF pm_call.fn = "process_mol"
             THEN pm_call.value.sites = <<i>>
             ELSE GetItem(pm_call.value.items, s_id) = str(PyObjectId(i))

\* C5 witness: two documents match, the first one was updated last, and
\* process_run returned it.
C5_Witness ==
    /\ Called
    /\ pm_call.fn = "process_run"
    /\ pm_call.operation_type = "get_from_run_query"
    /\ pm_call.outcome = "ok"
    /\ MatchingRuns(pm_call.arg) = {1, 2}
    /\ db.runs[1].last_updated > db.runs[2].last_updated
    /\ GetItem(pm_call.value.items, s_id) = str(PyObjectId(1))

\* some key that starts with "@" occurs in v, at any depth, lists included
RECURSIVE HasSignatureKey(_)
HasSignatureKey(v) ==
    CASE v.t = "dict" ->
            \E i \in DOMAIN v.items :
                startswith(v.items[i].k, <<"@">>) \/ HasSignatureKey(v.items[i].v)
      [] v.t = "list" -> \E i \in DOMAIN v.elems : HasSignatureKey(v.elems[i])
      [] OTHER -> FALSE

\* C6: no key that starts with "@" occurs at any nesting depth of the
\* dictionary returned by process_run, including inside dictionaries that are
\* elements of lists.
C6_NoSignatureKeys_AsStated ==
    (pm_call.fn = "process_run" /\ pm_call.outcome = "ok" /\ IsDict(pm_call.value))
    => ~HasSignatureKey(pm_call.value)

\* C7: for every operation type, the dictionary returned by process_run has
\* no top-level "last_updated" key, and if it has an "_id" key its value is a
\* string.
C7_JsonLikeDocument ==
    (pm_call.fn = "process_run" /\ pm_call.outcome = "ok" /\ IsDict(pm_call.value))
    => /\ ~HasKey(pm_call.value.items, s_last_updated)
       /\ HasKey(pm_call.value.items, s_id)
            => GetItem(pm_call.value.items, s_id).t = "str"

\* C7 witness: process_run returned a run document of the database, found by
\* its id, with the ObjectId as a string and without last_updated.
C7_Witness ==
    /\ pm_call.fn = "process_run"
    /\ pm_call.operation_type = "get_from_run_id"
    /\ pm_call.outcome = "ok"
    /\ pm_call.arg = PyStr(<<"2">>)
    /\ GetItem(pm_call.value.items, s_id) = PyStr(<<"2">>)
    /\ ~HasKey(pm_call.value.items, s_last_updated)

\* C22 as stated: process_run with get_from_run_dict leaves the caller's run
\* dictionary as it was: after a call that returns, the dictionary has the keys
\* and values it had before, its last_updated and _id entries included (the
\* returned dictionary being a separate object).
C22_RunDictNotModified_AsStated ==
    ( /\ pm_call.fn = "process_run"
      /\ pm_call.operation_type = "get_from_run_dict"
      /\ pm_call.outcome = "ok"
      /\ IsDict(pm_call.arg) )
    => pm_call.run_after = pm_call.arg

\* the steps of call `at` and of the calls it makes
StepsOf(at) ==
    {i \in DOMAIN pm_call.trace :
        /\ Len(pm_call.trace[i].at) >= Len(at)
        /\ SubSeq(pm_call.trace[i].at, 1, Len(at)) = at}

\* C10: no retry or recovery in process_mol and process_run: a failed step
\* ends the call with an exception, it is attempted once, and no later step
\* runs (in link_molecules the second molecule is not processed when the first
\* fails; no local optimization or charge assignment after a failure).
C10_NoRetry ==
    pm_call.fn # "none" =>
      /\ \A i \in DOMAIN pm_call.trace :
            ~pm_call.trace[i].ok =>
               /\ i = Len(pm_call.trace)
               /\ pm_call.outcome # "ok"
               /\ pm_call.value = PyNone
      /\ pm_call.outcome # "ok" => ~pm_call.trace[Len(pm_call.trace)].ok
      /\ \A i, j \in DOMAIN pm_call.trace :
            pm_call.trace[i] = pm_call.trace[j] => i = j
      /\ (\E i \in StepsOf(<<1>>) : ~pm_call.trace[i].ok) => StepsOf(<<2>>) = {}
      /\ pm_call.outcome # "ok" =>
            \A i \in OwnSteps :
                pm_call.trace[i].step \notin {"perform_local_opt", "set_charge_and_spin"}

\* C10 witness: link_molecules was asked for local optimization, its first
\* molecule was not found, and the call ended there.
C10_Witness ==
    /\ Called
    /\ pm_call.operation_type = "link_molecules"
    /\ pm_call.local_opt
    /\ pm_call.arg.operation_types = <<"get_from_file", "get_from_mol">>
    /\ pm_call.outcome = "Exception"
    /\ StepsOf(<<1>>) # {}
    /\ StepsOf(<<2>>) = {}

-----------------------------------------------------------------------------
(* The ESP workflow: src/infrastructure/gaussian/workflows/base/esp.py *)

MaxOptFreq == 2

s_proceed == <<"p", "r", "o", "c", "e", "e", "d">>
s_has_gaussian_completed ==
    <<"h", "a", "s", "_", "g", "a", "u", "s", "s", "i", "a", "n", "_",
      "c", "o", "m", "p", "l", "e", "t", "e", "d">>
s_stationary_type ==
    <<"s", "t", "a", "t", "i", "o", "n", "a", "r", "y", "_", "t", "y", "p", "e">>
s_launch_dir == <<"_", "l", "a", "u", "n", "c", "h", "_", "d", "i", "r">>
s_category == <<"_", "c", "a", "t", "e", "g", "o", "r", "y">>

\* a Firework: its name, its parents as positions in the workflow's list of
\* fireworks, the Gaussian keywords it runs with and its spec
Firework(name, parents, gaussian_input_params, spec) ==
    [name |-> name, parents |-> parents,
     gaussian_input_params |-> gaussian_input_params, spec |-> spec]

\* common_fw(...): the optimization and frequency fireworks, at most n, each
\* with parents among the fireworks made before it
RECURSIVE CommonFwUpTo(_)
CommonFwUpTo(n) ==
    IF n = 0 THEN {<<>>}
    ELSE LET shorter == CommonFwUpTo(n - 1)
         IN  shorter \cup
             { Append(f, Firework("opt_freq", ps, PyNone, PyDict(<<>>))) :
                 f \in {x \in shorter : Len(x) = n - 1}, ps \in SUBSET (1..(n - 1)) }

common_fw == CommonFwUpTo(MaxOptFreq)

\* the label common_fw returns
label == <<"L">>

\* lines 71-75
EspInputParameters(esp_gaussian_inputs) ==
    IF ~HasKey(esp_gaussian_inputs.items, s_input_parameters)
    THEN LET mol_esp ==
               join(working_dir,
                    join(join(join(working_dir, label), <<"E", "S", "P">>), label)
                    \o <<"_", "e", "s", "p">>)
         IN  PyDict(SetItem(esp_gaussian_inputs.items, s_input_parameters,
                            PyDict(<<[k |-> mol_esp, v |-> PyNone]>>)))
    ELSE esp_gaussian_inputs

\* the conditions the ESP firework puts on the run it starts from
EspProceed(skip_opt_freq) ==
    IF ~skip_opt_freq
    THEN PyDict(<<[k |-> s_has_gaussian_completed, v |-> PyBool(TRUE)],
                  [k |-> s_stationary_type,
                   v |-> PyStr(<<"M", "i", "n", "i", "m", "u", "m">>)]>>)
    ELSE PyDict(<<[k |-> s_has_gaussian_completed, v |-> PyBool(TRUE)]>>)

\* lines 77-82 with setdefault in place of update: a proceed entry of the
\* caller's spec is kept
Mutant_EspSpec_setdefault(spec, skip_opt_freq) ==
    PyDict(Update(<<[k |-> s_proceed, v |-> EspProceed(skip_opt_freq)]>>, spec.items))

\* lines 77-82, spec being kwargs.pop("spec", {})
EspSpec(spec, skip_opt_freq) ==
    PyDict(Update(spec.items, <<[k |-> s_proceed, v |-> EspProceed(skip_opt_freq)]>>))

\* an ESP firework that is given no parents
Mutant_esp_fw_no_parents(fws, esp_gaussian_inputs, spec) ==
    Firework("esp", {}, esp_gaussian_inputs, spec)

\* lines 84-96: CalcFromRunsDBFW(..., parents=fws[:], ...)
esp_fw(fws, esp_gaussian_inputs, spec) ==
    Firework("esp", DOMAIN fws, esp_gaussian_inputs, spec)

\* lines 99-109: Firework(ESPtoDB(...), parents=fws[:], ...)
fw_analysis(fws) ==
    Firework("esp_analysis", DOMAIN fws, PyNone,
             PyDict(<<[k |-> s_launch_dir,
                       v |-> PyStr(join(working_dir,
                                        <<"a", "n", "a", "l", "y", "s", "i", "s">>))]>>))

\* lines 53-115, r being what handle_gaussian_inputs returned and
\* opt_freq_fws what common_fw returned: [std, error, fws]
EspWorkflow(r, spec, skip_opt_freq, opt_freq_fws) ==
    IF r.error # "none" THEN [std |-> r.std, error |-> r.error, fws |-> <<>>]
    ELSE LET fws1 == opt_freq_fws
             fws2 == Append(fws1, esp_fw(fws1, EspInputParameters(GetItem(r.gi, s_esp)),
                                         EspSpec(spec, skip_opt_freq)))
             fws3 == Append(fws2, fw_analysis(fws2))
         IN  [std |-> r.std, error |-> "none", fws |-> fws3]

get_esp_charges(std, opt, freq, esp, solvent, props, spec, skip_opt_freq, opt_freq_fws) ==
    EspWorkflow(handle_gaussian_inputs(std,
                                       <<[k |-> s_opt, v |-> opt],
                                         [k |-> s_freq, v |-> freq],
                                         [k |-> s_esp, v |-> esp]>>,
                                       solvent, props),
                spec, skip_opt_freq, opt_freq_fws)

EspInputsArgs ==
    { PyNone,
      PyDict(<<[k |-> s_input_parameters,
                v |-> PyDict(<<[k |-> s_EPS, v |-> PyStr(<<"1">>)]>>)]>>) }

\* kwargs["spec"] as a caller passes it: absent, or with a worker category
\* and conditions of the caller's own
SpecArgs ==
    { PyDict(<<>>),
      PyDict(<<[k |-> s_category, v |-> PyStr(<<"g", "p", "u">>)],
               [k |-> s_proceed,
                v |-> PyDict(<<[k |-> s_has_gaussian_completed, v |-> PyBool(FALSE)],
                               [k |-> s_stationary_type,
                                v |-> PyStr(<<"S", "a", "d", "d", "l", "e">>)]>>)]>>) }

CallGetEspCharges ==
    /\ ~wf.called
    /\ \E opt \in {PyNone, PyDict(<<[k |-> s_functional, v |-> PyStr(s_PBE)]>>)},
          esp \in EspInputsArgs, solvent \in SolventArgs, props \in SolventPropertiesArgs,
          spec \in SpecArgs, skip_opt_freq \in BOOLEAN, opt_freq_fws \in common_fw :
        \E r \in {get_esp_charges(STANDARD_OPT_GUASSIAN_INPUT, opt, PyNone, esp, solvent,
                                  props, spec, skip_opt_freq, opt_freq_fws)} :
            /\ STANDARD_OPT_GUASSIAN_INPUT' = r.std
            /\ wf' = [called |-> TRUE, spec |-> spec, skip_opt_freq |-> skip_opt_freq,
                      error |-> r.error, fws |-> r.fws]
            /\ fw_state' = [i \in DOMAIN r.fws |-> "WAITING"]
    /\ UNCHANGED <<gi_call, db, pm_call, parse_call, ff_call, gout_call, ff_dicts>>

\* the orchestration library launches a firework whose parents all completed
StartFirework ==
    /\ \E i \in DOMAIN fw_state :
        /\ fw_state[i] = "WAITING"
        /\ \A p \in wf.fws[i].parents : fw_state[p] = "COMPLETED"
        /\ fw_state' = [fw_state EXCEPT ![i] = "RUNNING"]
    /\ UNCHANGED <<STANDARD_OPT_GUASSIAN_INPUT, gi_call, db, pm_call, wf, parse_call, ff_call, gout_call, ff_dicts>>

CompleteFirework ==
    /\ \E i \in DOMAIN fw_state :
        /\ fw_state[i] = "RUNNING"
        /\ fw_state' = [fw_state EXCEPT ![i] = "COMPLETED"]
    /\ UNCHANGED <<STANDARD_OPT_GUASSIAN_INPUT, gi_call, db, pm_call, wf, parse_call, ff_call, gout_call, ff_dicts>>

\* a firework that fails leaves its children waiting
FizzleFirework ==
    /\ \E i \in DOMAIN fw_state :
        /\ fw_state[i] = "RUNNING"
        /\ fw_state' = [fw_state EXCEPT ![i] = "FIZZLED"]
    /\ UNCHANGED <<STANDARD_OPT_GUASSIAN_INPUT, gi_call, db, pm_call, wf, parse_call, ff_call, gout_call, ff_dicts>>

InitEsp ==
    /\ STANDARD_OPT_GUASSIAN_INPUT = StandardOptInput
    /\ gi_call = NoGiCall
    /\ db = EmptyDb
    /\ pm_call = NoPmCall
    /\ wf = NoWorkflow
    /\ fw_state = NoFwState
    /\ parse_call = NoParseCall
    /\ ff_call = NoFfCall
    /\ gout_call = NoGoutCall
    /\ ff_dicts = NoFfDicts

NextEsp == CallGetEspCharges \/ StartFirework \/ CompleteFirework \/ FizzleFirework

SpecEsp == InitEsp /\ [][NextEsp]_vars

(* Claims about the ESP workflow *)

\* the fireworks from which firework i is reached over at most k parent links
RECURSIVE AncestorsWithin(_, _)
AncestorsWithin(i, k) ==
    IF k = 0 THEN {}
    ELSE wf.fws[i].parents
         \cup UNION {AncestorsWithin(p, k - 1) : p \in wf.fws[i].parents}

Built == wf.called /\ wf.error = "none"
EspIndex == Len(wf.fws) - 1
AnalysisIndex == Len(wf.fws)
OptFreqIndexes == 1..(Len(wf.fws) - 2)

\* C8: the workflow built by get_esp_charges is acyclic, the ESP firework has
\* every opt/freq firework of common_fw as a parent, the analysis firework has
\* the ESP firework and every opt/freq firework as parents and is the only
\* firework without children; so the ESP calculation has not started unless
\* all opt/freq fireworks completed, and the analysis has not started unless
\* the ESP calculation completed.
C8_EspWorkflowOrder ==
    Built =>
      /\ wf.fws[EspIndex].name = "esp"
      /\ wf.fws[AnalysisIndex].name = "esp_analysis"
      /\ \A i \in DOMAIN wf.fws :
            /\ wf.fws[i].parents \subseteq DOMAIN wf.fws
            /\ i \notin AncestorsWithin(i, Len(wf.fws))
      /\ OptFreqIndexes \subseteq wf.fws[EspIndex].parents
      /\ OptFreqIndexes \cup {EspIndex} \subseteq wf.fws[AnalysisIndex].parents
      /\ {i \in DOMAIN wf.fws : \A j \in DOMAIN wf.fws : i \notin wf.fws[j].parents}
            = {AnalysisIndex}
      /\ fw_state[EspIndex] # "WAITING" =>
            \A i \in OptFreqIndexes : fw_state[i] = "COMPLETED"
      /\ fw_state[AnalysisIndex] # "WAITING" => fw_state[EspIndex] = "COMPLETED"

\* C8 witness: two independent opt/freq fireworks completed, then the ESP
\* calculation, and the analysis runs.
C8_Witness ==
    /\ Built
    /\ Len(wf.fws) = 4
    /\ wf.fws[2].parents = {}
    /\ fw_state = <<"COMPLETED", "COMPLETED", "COMPLETED", "RUNNING">>

\* C19: the spec of the ESP firework built by get_esp_charges has a proceed
\* entry with has_gaussian_completed = True, and with stationary_type =
\* "Minimum" exactly when skip_opt_freq is false; nothing of a proceed entry of
\* the caller's spec is left in it, and every other key of the caller's spec
\* is kept with its value.
C19_EspProceed ==
    Built =>
      /\ HasKey(wf.fws[EspIndex].spec.items, s_proceed)
      /\ \A proceed \in {GetItem(wf.fws[EspIndex].spec.items, s_proceed)} :
          /\ HasKey(proceed.items, s_has_gaussian_completed)
          /\ GetItem(proceed.items, s_has_gaussian_completed) = PyBool(TRUE)
          /\ HasKey(proceed.items, s_stationary_type) <=> ~wf.skip_opt_freq
          /\ HasKey(proceed.items, s_stationary_type) =>
                GetItem(proceed.items, s_stationary_type)
                    = PyStr(<<"M", "i", "n", "i", "m", "u", "m">>)
          /\ DictKeys(proceed.items) \subseteq {s_has_gaussian_completed, s_stationary_type}
      /\ \A k \in DictKeys(wf.spec.items) \ {s_proceed} :
          /\ HasKey(wf.fws[EspIndex].spec.items, k)
          /\ GetItem(wf.fws[EspIndex].spec.items, k) = GetItem(wf.spec.items, k)

\* the caller skipped opt/freq and passed a spec with a worker category and
\* with a proceed entry asking for a saddle point
C19_Witness ==
    /\ Built
    /\ wf.skip_opt_freq
    /\ HasKey(wf.spec.items, s_proceed)
    /\ HasKey(GetItem(wf.spec.items, s_proceed).items, s_stationary_type)
    /\ GetItem(wf.fws[EspIndex].spec.items, s_category) = PyStr(<<"g", "p", "u">>)
    /\ GetItem(wf.fws[EspIndex].spec.items, s_proceed)
          = PyDict(<<[k |-> s_has_gaussian_completed, v |-> PyBool(TRUE)]>>)

-----------------------------------------------------------------------------
(* ParseGaussianOutputFile: src/gaussian/gaussian_output_task.py *)

MaxFiles == 3

s_outputs == <<"o", "u", "t", "p", "u", "t", "s">>
s_push == <<"_", "p", "u", "s", "h">>
s_dot_out == <<".", "o", "u", "t">>
s_dot_log == <<".", "l", "o", "g">>

\* the names a directory can hold
FileNames ==
    { <<"a", ".", "o", "u", "t">>, <<"a", ".", "l", "o", "g">>,
      <<"b", ".", "l", "o", "g">>, <<"c", ".", "t", "x", "t">>,
      <<".", "l", "o", "g">>, <<"a", ".", "b", ".", "o", "u", "t">> }

\* os.listdir(files_dir): the distinct names of a directory of at most n
\* entries, in arbitrary order
RECURSIVE ListingsUpTo(_)
ListingsUpTo(n) ==
    IF n = 0 THEN {<<>>}
    ELSE LET shorter == ListingsUpTo(n - 1)
         IN  shorter \cup
             { Append(l, f) : l \in {x \in shorter : Len(x) = n - 1},
                              f \in FileNames }

listdir == {l \in ListingsUpTo(MaxFiles) : \A i, j \in DOMAIN l : l[i] = l[j] => i = j}

\* os.path.splitext(name)[0] of a name without separators: the name up to its
\* last dot, unless only dots come before that dot
splitext(name) ==
    LET dots == {i \in DOMAIN name : name[i] = "."}
        dotIndex == IF dots = {} THEN 0
                    ELSE CHOOSE i \in dots : \A j \in dots : j <= i
    IN  IF dotIndex > 0 /\ \E i \in 1..(dotIndex - 1) : name[i] # "."
        THEN SubSeq(name, 1, dotIndex - 1)
        ELSE name

\* GaussianOutput(path): every file holds its own molecule, here with the
\* letters of the file's name as sites
ParsedFile(name) ==
    GaussianOutput([i \in DOMAIN name |->
                      IF \E c \in DOMAIN LowerChars : LowerChars[c] = name[i]
                      THEN CHOOSE c \in DOMAIN LowerChars : LowerChars[c] = name[i]
                      ELSE 0])

\* lines 20-22: the output as json holds it, without @module and @class
ParsedOut(name) ==
    PyDict(DelItem(DelItem(JsonRoundTrip(GaussianOutputAsDict(ParsedFile(name))).items,
                           s_at_module),
                   s_at_class))

\* lines 17-25: the loop over the listing, from entry i on
RECURSIVE ParseLoop(_, _, _)
ParseLoop(files, i, outputs_dict) ==
    IF i > Len(files) THEN outputs_dict
    ELSE LET gau_out == files[i]
         IN  IF endswith(gau_out, s_dot_out) \/ endswith(gau_out, s_dot_log)
             THEN ParseLoop(files, i + 1,
                            SetItem(outputs_dict, splitext(gau_out), ParsedOut(gau_out)))
             ELSE ParseLoop(files, i + 1, outputs_dict)

\* run_task(fw_spec): the FWAction
run_task(files) ==
    LET outputs_dict == PyDict(ParseLoop(files, 1, <<>>))
    IN  [stored_data |-> PyDict(<<[k |-> s_outputs, v |-> outputs_dict]>>),
         mod_spec |-> PyList(<<PyDict(<<[k |-> s_push,
                    v |-> PyDict(<<[k |-> s_outputs, v |-> outputs_dict]>>)]>>)>>)]

RunTask ==
    /\ ~parse_call.ran
    /\ \E files \in listdir :
        LET action == run_task(files)
        IN  parse_call' = [ran |-> TRUE, files |-> files,
                           stored_data |-> action.stored_data,
                           mod_spec |-> action.mod_spec]
    /\ UNCHANGED <<STANDARD_OPT_GUASSIAN_INPUT, gi_call, db, pm_call, wf, fw_state, ff_call, gout_call, ff_dicts>>

\* the orchestration library takes the action; the task can run again
ReturnTask ==
    /\ parse_call.ran
    /\ parse_call' = NoParseCall
    /\ UNCHANGED <<STANDARD_OPT_GUASSIAN_INPUT, gi_call, db, pm_call, wf, fw_state, ff_call, gout_call, ff_dicts>>

InitParse ==
    /\ STANDARD_OPT_GUASSIAN_INPUT = StandardOptInput
    /\ gi_call = NoGiCall
    /\ db = EmptyDb
    /\ pm_call = NoPmCall
    /\ wf = NoWorkflow
    /\ fw_state = NoFwState
    /\ parse_call = NoParseCall
    /\ ff_call = NoFfCall
    /\ gout_call = NoGoutCall
    /\ ff_dicts = NoFfDicts

NextParse == RunTask \/ ReturnTask

SpecParse == InitParse /\ [][NextParse]_vars

(* Claims about ParseGaussianOutputFile *)

StoredOutputs == GetItem(parse_call.stored_data.items, s_outputs)
PushedOutputs ==
    GetItem(GetItem(parse_call.mod_spec.elems[1].items, s_push).items, s_outputs)
\* the files of the directory whose name ends in .out or .log
GaussianFiles ==
    {parse_call.files[i] : i \in DOMAIN parse_call.files} \cap
    {f \in FileNames : endswith(f, s_dot_out) \/ endswith(f, s_dot_log)}

\* C9: the stored and the pushed outputs of run_task are the same mapping,
\* which has exactly one entry for each file of filesDir whose name ends in
\* .out or .log, keyed by the file name without its extension and holding
\* that file's output, and no entry for any other file.
C9_OneEntryPerFile_AsStated ==
    parse_call.ran =>
      /\ StoredOutputs = PushedOutputs
      /\ \A f \in GaussianFiles :
            /\ HasKey(StoredOutputs.items, splitext(f))
            /\ GetItem(StoredOutputs.items, splitext(f)) = ParsedOut(f)
      /\ Len(StoredOutputs.items) = Cardinality(GaussianFiles)
      /\ DictKeys(StoredOutputs.items) \subseteq {splitext(f) : f \in GaussianFiles}

-----------------------------------------------------------------------------
(* Force-field labels (mispr/lammps/utils/utils.py).  A bonded-term list      *)
(* ("BADI": bonds, angles, dihedrals, impropers) is a sequence of entries     *)
(* [coeffs, types]; types is a sequence of tuples of atom labels.  Floats are *)
(* written as integers (thousandths); they are only passed along.             *)

\* tuple(atom + label for atom in type)
Mutant_LabelTuple_prefix(type, ff_label) == [a \in 1..Len(type) |-> ff_label \o type[a]]
LabelTuple(type, ff_label) == [a \in 1..Len(type) |-> type[a] \o ff_label]

\* add_labels_to_BADI_lists(list, ff_label)
add_ff_labels_to_BADI_lists(list, ff_label) ==
    [i \in 1..Len(list) |->
        [coeffs |-> list[i].coeffs,
         types |-> [j \in 1..Len(list[i].types) |->
                        LabelTuple(list[i].types[j], ff_label)]]]

\* output_masses[atom_type + label] = mass, for each item of ff_dict["Masses"]
RECURSIVE LabelMasses(_, _, _)
Mutant_LabelMasses_unlabelled(output_masses, masses, ff_label) == output_masses \o masses
LabelMasses(output_masses, masses, ff_label) ==
    IF masses = <<>> THEN output_masses
    ELSE LabelMasses(SetItem(output_masses, Head(masses).k \o ff_label, Head(masses).v),
                     Tail(masses), ff_label)

\* add_labels_to_dict(ff_dict, ff_label)
add_ff_labels_to_dict(ff_dict, ff_label) ==
    [Molecule |-> ff_dict.Molecule,
     Labels |-> [i \in 1..Len(ff_dict.Labels) |-> ff_dict.Labels[i] \o ff_label],
     Masses |-> LabelMasses(<<>>, ff_dict.Masses, ff_label),
     Nonbond |-> ff_dict.Nonbond,
     Bonds |-> add_ff_labels_to_BADI_lists(ff_dict.Bonds, ff_label),
     Angles |-> add_ff_labels_to_BADI_lists(ff_dict.Angles, ff_label),
     Dihedrals |-> add_ff_labels_to_BADI_lists(ff_dict.Dihedrals, ff_label),
     Impropers |-> add_ff_labels_to_BADI_lists(ff_dict.Impropers, ff_label),
     Improper_Topologies |-> ff_dict.Improper_Topologies,
     Charges |-> ff_dict.Charges]

(* The calls of the labelling *)

MaxBadi == 2

s_ow == <<"o", "w">>
s_hw == <<"h", "w">>
s_ow1 == <<"o", "w", "1">>
s_hw1 == <<"h", "w", "1">>
s_H2O == <<"H", "2", "O">>

LabelArgs == {<<>>, <<"X">>, s_H2O}

BadiEntries ==
    { [coeffs |-> c, types |-> t] :
        c \in {<<553000, 1>>, <<100000, 109470>>},
        t \in {<<>>, <<<<s_ow, s_hw>>>>, <<<<s_hw, s_ow, s_hw>>>>,
               <<<<s_ow, s_hw>>, <<s_ow1, s_hw1>>>>} }

RECURSIVE BadiListsUpTo(_)
BadiListsUpTo(n) ==
    IF n = 0 THEN {<<>>}
    ELSE LET shorter == BadiListsUpTo(n - 1)
         IN  shorter \cup
             {Append(l, e) : l \in {x \in shorter : Len(x) = n - 1}, e \in BadiEntries}

BadiListArgs == BadiListsUpTo(MaxBadi)

\* the SPC/E water parameters of the program's own example, and variations
Spce_param_dict ==
    [Molecule |-> "Spce_molecule",
     Labels |-> <<s_ow, s_hw, s_hw>>,
     Masses |-> <<[k |-> s_ow, v |-> 16000], [k |-> s_hw, v |-> 1008]>>,
     Nonbond |-> <<<<155, 3166>>, <<0, 0>>>>,
     Bonds |-> <<[coeffs |-> <<553000, 1>>, types |-> <<<<s_ow, s_hw>>>>]>>,
     Angles |-> <<[coeffs |-> <<100000, 109470>>, types |-> <<<<s_hw, s_ow, s_hw>>>>]>>,
     Dihedrals |-> <<>>,
     Impropers |-> <<>>,
     Improper_Topologies |-> PyNone,
     Charges |-> <<-848, 424, 424>>]

FfDictArgs ==
    { [Spce_param_dict EXCEPT !.Labels = labels, !.Masses = masses,
                              !.Impropers = impropers, !.Charges = charges] :
        labels \in {<<s_ow, s_hw, s_hw>>, <<s_ow1, s_ow>>, <<>>},
        masses \in {<<[k |-> s_ow, v |-> 16000], [k |-> s_hw, v |-> 1008]>>,
                    <<[k |-> s_ow1, v |-> 16000], [k |-> s_ow, v |-> 16000]>>,
                    <<>>},
        impropers \in {l \in BadiListArgs : Len(l) <= 1},
        charges \in {<<-848, 424, 424>>, <<>>} }

CallAddLabelsToBADI ==
    /\ ff_call.fn = "none"
    /\ \E list \in BadiListArgs, ff_label \in LabelArgs :
        ff_call' = [fn |-> "add_ff_labels_to_BADI_lists", arg |-> list,
                    label |-> ff_label,
                    result |-> add_ff_labels_to_BADI_lists(list, ff_label)]
    /\ UNCHANGED <<STANDARD_OPT_GUASSIAN_INPUT, gi_call, db, pm_call, wf, fw_state,
                   parse_call, gout_call, ff_dicts>>

CallAddLabelsToDict ==
    /\ ff_call.fn = "none"
    /\ \E ff_dict \in FfDictArgs, ff_label \in LabelArgs :
        ff_call' = [fn |-> "add_ff_labels_to_dict", arg |-> ff_dict,
                    label |-> ff_label,
                    result |-> add_ff_labels_to_dict(ff_dict, ff_label)]
    /\ UNCHANGED <<STANDARD_OPT_GUASSIAN_INPUT, gi_call, db, pm_call, wf, fw_state,
                   parse_call, gout_call, ff_dicts>>

\* the caller takes the result; the next call can start
ReturnLabels ==
    /\ ff_call.fn # "none"
    /\ ff_call' = NoFfCall
    /\ UNCHANGED <<STANDARD_OPT_GUASSIAN_INPUT, gi_call, db, pm_call, wf, fw_state,
                   parse_call, gout_call, ff_dicts>>

InitLabels ==
    /\ STANDARD_OPT_GUASSIAN_INPUT = StandardOptInput
    /\ gi_call = NoGiCall
    /\ db = EmptyDb
    /\ pm_call = NoPmCall
    /\ wf = NoWorkflow
    /\ fw_state = NoFwState
    /\ parse_call = NoParseCall
    /\ ff_call = NoFfCall
    /\ gout_call = NoGoutCall
    /\ ff_dicts = NoFfDicts

NextLabels == CallAddLabelsToBADI \/ CallAddLabelsToDict \/ ReturnLabels

SpecLabels == InitLabels /\ [][NextLabels]_vars

\* C11: add_ff_labels_to_BADI_lists returns as many entries as it was given,
\* in the same order; each entry keeps its coeffs and its number of type
\* tuples, every tuple keeps its length, and every atom label of the output is
\* the input's atom label with the label appended.
C11_BadiLabelsAppended ==
    ff_call.fn = "add_ff_labels_to_BADI_lists" =>
        /\ Len(ff_call.result) = Len(ff_call.arg)
        /\ \A i \in 1..Len(ff_call.arg) :
            /\ ff_call.result[i].coeffs = ff_call.arg[i].coeffs
            /\ Len(ff_call.result[i].types) = Len(ff_call.arg[i].types)
            /\ \A j \in 1..Len(ff_call.arg[i].types) :
                /\ Len(ff_call.result[i].types[j]) = Len(ff_call.arg[i].types[j])
                /\ \A a \in 1..Len(ff_call.arg[i].types[j]) :
                    ff_call.result[i].types[j][a]
                        = ff_call.arg[i].types[j][a] \o ff_call.label

\* two entries, the second with two tuples, labelled with "H2O"
C11_Witness ==
    /\ ff_call.fn = "add_ff_labels_to_BADI_lists"
    /\ ff_call.label = s_H2O
    /\ Len(ff_call.arg) = 2
    /\ ff_call.arg[1].types = <<<<s_hw, s_ow, s_hw>>>>
    /\ ff_call.arg[2].types = <<<<s_ow, s_hw>>, <<s_ow1, s_hw1>>>>
    /\ ff_call.result[2].types[2][1] = <<"o", "w", "1", "H", "2", "O">>

\* C20: add_ff_labels_to_dict returns Labels of the same length and order with
\* the label appended to each; Masses with as many entries, in the same order,
\* with the same mass values and each key suffixed with the label; Molecule,
\* Nonbond, Improper Topologies and Charges as given; so when every input label
\* is a key of the input Masses, every output label is a key of the output
\* Masses.
C20_DictLabelsAppended ==
    ff_call.fn = "add_ff_labels_to_dict" =>
        /\ Len(ff_call.result.Labels) = Len(ff_call.arg.Labels)
        /\ \A i \in 1..Len(ff_call.arg.Labels) :
            ff_call.result.Labels[i] = ff_call.arg.Labels[i] \o ff_call.label
        /\ Len(ff_call.result.Masses) = Len(ff_call.arg.Masses)
        /\ \A i \in 1..Len(ff_call.arg.Masses) :
            /\ ff_call.result.Masses[i].k = ff_call.arg.Masses[i].k \o ff_call.label
            /\ ff_call.result.Masses[i].v = ff_call.arg.Masses[i].v
        /\ ff_call.result.Molecule = ff_call.arg.Molecule
        /\ ff_call.result.Nonbond = ff_call.arg.Nonbond
        /\ ff_call.result.Improper_Topologies = ff_call.arg.Improper_Topologies
        /\ ff_call.result.Charges = ff_call.arg.Charges
        /\ (\A i \in 1..Len(ff_call.arg.Labels) :
                HasKey(ff_call.arg.Masses, ff_call.arg.Labels[i]))
           => \A i \in 1..Len(ff_call.result.Labels) :
                HasKey(ff_call.result.Masses, ff_call.result.Labels[i])

\* the SPC/E water parameters labelled with "H2O"
C20_Witness ==
    /\ ff_call.fn = "add_ff_labels_to_dict"
    /\ ff_call.label = s_H2O
    /\ ff_call.arg = Spce_param_dict
    /\ ff_call.result.Labels = <<s_ow \o s_H2O, s_hw \o s_H2O, s_hw \o s_H2O>>
    /\ DictKeys(ff_call.result.Masses) = {s_ow \o s_H2O, s_hw \o s_H2O}

-----------------------------------------------------------------------------
(* pass_gout_dict: src/infrastructure/gaussian/utils/utils.py *)

s_gaussian_output ==
    <<"g", "a", "u", "s", "s", "i", "a", "n", "_", "o", "u", "t", "p", "u", "t">>
s_mol == <<"m", "o", "l">>
s_mol_esp == <<"m", "o", "l", "_", "e", "s", "p">>

\* d.get(k, default)
Get(d, k, default) == IF HasKey(d.items, k) THEN GetItem(d.items, k) ELSE default

\* the lookup with the two places tried in the other order
Mutant_ProceedValue_inner_first(gout_dict, k) ==
    Get(GetItem(GetItem(gout_dict.items, s_output).items, s_output), k,
        Get(GetItem(gout_dict.items, s_output), k, PyNone))

\* gout_dict["output"].get(k, gout_dict["output"]["output"].get(k))
ProceedValue(gout_dict, k) ==
    Get(GetItem(gout_dict.items, s_output), k,
        Get(GetItem(GetItem(gout_dict.items, s_output).items, s_output), k, PyNone))

\* the loop of lines 263-268 from the condition at position i on; the default
\* of the outer get is evaluated before the outer get
RECURSIVE CheckProceed(_, _, _)
CheckProceed(gout_dict, proceed_keys, i) ==
    IF i > Len(proceed_keys) THEN [outcome |-> "returned", value |-> gout_dict]
    ELSE IF gout_dict = PyNone THEN [outcome |-> "TypeError", value |-> PyNone]
    ELSE IF ~HasKey(gout_dict.items, s_output)
    THEN [outcome |-> "KeyError", value |-> PyNone]
    ELSE IF ~HasKey(GetItem(gout_dict.items, s_output).items, s_output)
    THEN [outcome |-> "KeyError", value |-> PyNone]
    ELSE IF ProceedValue(gout_dict, proceed_keys[i].k) # proceed_keys[i].v
    THEN [outcome |-> "ValueError", value |-> PyNone]
    ELSE CheckProceed(gout_dict, proceed_keys, i + 1)

\* pass_gout_dict(fw_spec, key)
pass_gout_dict(fw_spec, key) ==
    CheckProceed(Get(Get(fw_spec, s_gaussian_output, PyDict(<<>>)), key, PyNone),
                 Get(fw_spec, s_proceed, PyDict(<<>>)).items, 1)

(* The calls of pass_gout_dict *)

\* run records as the earlier fireworks store them: output holds the parsed
\* output under "output"; the two keys a workflow asks about are at either
\* level, at both or at none
GoutRecords ==
    { PyDict(<<[k |-> s_output,
                v |-> PyDict(outer \o <<[k |-> s_output, v |-> PyDict(c \o st)]>>)]>>) :
        outer \in {<<>>, <<[k |-> s_has_gaussian_completed, v |-> PyBool(TRUE)]>>,
                   <<[k |-> s_has_gaussian_completed, v |-> PyBool(FALSE)]>>},
        c \in {<<>>, <<[k |-> s_has_gaussian_completed, v |-> PyBool(TRUE)]>>,
               <<[k |-> s_has_gaussian_completed, v |-> PyBool(FALSE)]>>},
        st \in {<<>>,
                <<[k |-> s_stationary_type,
                   v |-> PyStr(<<"M", "i", "n", "i", "m", "u", "m">>)]>>,
                <<[k |-> s_stationary_type,
                   v |-> PyStr(<<"S", "a", "d", "d", "l", "e">>)]>>} }

\* the spec of a firework: with or without the output of the run it starts
\* from, stored under "mol", and with or without conditions
FwSpecArgs ==
    { PyDict(g \o pr) :
        g \in {<<>>} \cup
              { <<[k |-> s_gaussian_output, v |-> PyDict(<<[k |-> s_mol, v |-> r]>>)]>> :
                  r \in GoutRecords },
        pr \in {<<>>, <<[k |-> s_proceed, v |-> PyDict(<<>>)]>>,
                <<[k |-> s_proceed, v |-> EspProceed(TRUE)]>>,
                <<[k |-> s_proceed, v |-> EspProceed(FALSE)]>>} }

CallPassGoutDict ==
    /\ gout_call.fn = "none"
    /\ \E fw_spec \in FwSpecArgs, key \in {s_mol, s_mol_esp} :
        \E r \in {pass_gout_dict(fw_spec, key)} :
            gout_call' = [fn |-> "pass_gout_dict", fw_spec |-> fw_spec, key |-> key,
                          outcome |-> r.outcome, value |-> r.value]
    /\ UNCHANGED <<STANDARD_OPT_GUASSIAN_INPUT, gi_call, db, pm_call, wf, fw_state,
                   parse_call, ff_call, ff_dicts>>

\* the firework takes the result, or ends with the error
ReturnGout ==
    /\ gout_call.fn # "none"
    /\ gout_call' = NoGoutCall
    /\ UNCHANGED <<STANDARD_OPT_GUASSIAN_INPUT, gi_call, db, pm_call, wf, fw_state,
                   parse_call, ff_call, ff_dicts>>

InitGout ==
    /\ STANDARD_OPT_GUASSIAN_INPUT = StandardOptInput
    /\ gi_call = NoGiCall
    /\ db = EmptyDb
    /\ pm_call = NoPmCall
    /\ wf = NoWorkflow
    /\ fw_state = NoFwState
    /\ parse_call = NoParseCall
    /\ ff_call = NoFfCall
    /\ gout_call = NoGoutCall
    /\ ff_dicts = NoFfDicts

NextGout == CallPassGoutDict \/ ReturnGout

SpecGout == InitGout /\ [][NextGout]_vars

(* Claims about pass_gout_dict *)

\* the dictionary stored for the key of the last call, None if there is none
StoredGout ==
    Get(Get(gout_call.fw_spec, s_gaussian_output, PyDict(<<>>)), gout_call.key, PyNone)

\* the conditions of the last call
ProceedOf == Get(gout_call.fw_spec, s_proceed, PyDict(<<>>)).items

\* the value the claim reads for condition k: output[k], or output["output"][k]
\* when k is absent from output
FoundAt(k) ==
    IF HasKey(GetItem(StoredGout.items, s_output).items, k)
    THEN GetItem(GetItem(StoredGout.items, s_output).items, k)
    ELSE IF HasKey(GetItem(GetItem(StoredGout.items, s_output).items, s_output).items, k)
    THEN GetItem(GetItem(GetItem(StoredGout.items, s_output).items, s_output).items, k)
    ELSE PyNone

ConditionsMet == \A i \in DOMAIN ProceedOf : FoundAt(ProceedOf[i].k) = ProceedOf[i].v

-----------------------------------------------------------------------------
(* The labelling applied to dictionaries the caller keeps.  An element of     *)
(* ff_dicts is a dictionary object: obj is its value now, made its value when *)
(* it was made, from and label say which call returned it (from = 0: the      *)
(* caller's own).                                                             *)

MaxDicts == 3

\* a call of add_ff_labels_to_dict that writes the labelled values into the
\* dictionary it was given
Mutant_LabelDictCall_in_place(ff_dict, ff_label) ==
    [arg |-> add_ff_labels_to_dict(ff_dict, ff_label),
     result |-> add_ff_labels_to_dict(ff_dict, ff_label)]

\* a call of add_ff_labels_to_dict on an object: [arg, result], arg being the
\* object after the call; every container the function fills is a new one
LabelDictCall(ff_dict, ff_label) ==
    [arg |-> ff_dict, result |-> add_ff_labels_to_dict(ff_dict, ff_label)]

\* the same for add_ff_labels_to_BADI_lists
LabelBadiCall(list, ff_label) ==
    [arg |-> list, result |-> add_ff_labels_to_BADI_lists(list, ff_label)]

\* the caller keeps the returned dictionary when it has room for it
Keep(dicts, result, i, ff_label) ==
    IF Len(dicts) < MaxDicts
    THEN Append(dicts, [obj |-> result, made |-> result, from |-> i, label |-> ff_label])
    ELSE dicts

RelabelDict ==
    /\ ff_call.fn = "none"
    /\ \E i \in DOMAIN ff_dicts, ff_label \in LabelArgs :
        \E r \in {LabelDictCall(ff_dicts[i].obj, ff_label)} :
            /\ ff_call' = [fn |-> "add_ff_labels_to_dict", arg |-> ff_dicts[i].obj,
                           label |-> ff_label, result |-> r.result]
            /\ ff_dicts' = Keep([ff_dicts EXCEPT ![i].obj = r.arg], r.result, i, ff_label)
    /\ UNCHANGED <<STANDARD_OPT_GUASSIAN_INPUT, gi_call, db, pm_call, wf, fw_state,
                   parse_call, gout_call>>

RelabelBadi ==
    /\ ff_call.fn = "none"
    /\ \E i \in DOMAIN ff_dicts, ff_label \in LabelArgs :
        \/ \E r \in {LabelBadiCall(ff_dicts[i].obj.Bonds, ff_label)} :
            /\ ff_call' = [fn |-> "add_ff_labels_to_BADI_lists",
                           arg |-> ff_dicts[i].obj.Bonds,
                           label |-> ff_label, result |-> r.result]
            /\ ff_dicts' = [ff_dicts EXCEPT ![i].obj.Bonds = r.arg]
        \/ \E r \in {LabelBadiCall(ff_dicts[i].obj.Angles, ff_label)} :
            /\ ff_call' = [fn |-> "add_ff_labels_to_BADI_lists",
                           arg |-> ff_dicts[i].obj.Angles,
                           label |-> ff_label, result |-> r.result]
            /\ ff_dicts' = [ff_dicts EXCEPT ![i].obj.Angles = r.arg]
    /\ UNCHANGED <<STANDARD_OPT_GUASSIAN_INPUT, gi_call, db, pm_call, wf, fw_state,
                   parse_call, gout_call>>

ReturnRelabel ==
    /\ ff_call.fn # "none"
    /\ ff_call' = NoFfCall
    /\ UNCHANGED <<STANDARD_OPT_GUASSIAN_INPUT, gi_call, db, pm_call, wf, fw_state,
                   parse_call, gout_call, ff_dicts>>

InitRelabel ==
    /\ STANDARD_OPT_GUASSIAN_INPUT = StandardOptInput
    /\ gi_call = NoGiCall
    /\ db = EmptyDb
    /\ pm_call = NoPmCall
    /\ wf = NoWorkflow
    /\ fw_state = NoFwState
    /\ parse_call = NoParseCall
    /\ ff_call = NoFfCall
    /\ gout_call = NoGoutCall
    /\ \E d \in {Spce_param_dict,
                 [Spce_param_dict EXCEPT
                    !.Labels = <<s_ow1, s_ow>>,
                    !.Masses = <<[k |-> s_ow1, v |-> 16000], [k |-> s_ow, v |-> 16000]>>,
                    !.Bonds = <<[coeffs |-> <<553000, 1>>,
                                 types |-> <<<<s_ow, s_hw>>, <<s_ow1, s_hw1>>>>]>>]} :
        ff_dicts = <<[obj |-> d, made |-> d, from |-> 0, label |-> <<>>]>>

NextRelabel == RelabelDict \/ RelabelBadi \/ ReturnRelabel

SpecRelabel == InitRelabel /\ [][NextRelabel]_vars

\* the type tuples of a bonded-term list
TypesOf(list) == [i \in DOMAIN list |-> list[i].types]

\* C21: add_ff_labels_to_dict and add_ff_labels_to_BADI_lists leave the
\* dictionary they are given as it was: after any calls, every dictionary the
\* caller holds has the Labels, the Masses keys and the Bonds, Angles,
\* Dihedrals and Impropers type tuples it was made with; and a returned
\* dictionary is what the function makes of the dictionary it was called on,
\* as that one was made, and of the label, whatever calls came before.
C21_InputsNotModified ==
    \A i \in DOMAIN ff_dicts :
        /\ ff_dicts[i].obj.Labels = ff_dicts[i].made.Labels
        /\ [m \in DOMAIN ff_dicts[i].obj.Masses |-> ff_dicts[i].obj.Masses[m].k]
             = [m \in DOMAIN ff_dicts[i].made.Masses |-> ff_dicts[i].made.Masses[m].k]
        /\ TypesOf(ff_dicts[i].obj.Bonds) = TypesOf(ff_dicts[i].made.Bonds)
        /\ TypesOf(ff_dicts[i].obj.Angles) = TypesOf(ff_dicts[i].made.Angles)
        /\ TypesOf(ff_dicts[i].obj.Dihedrals) = TypesOf(ff_dicts[i].made.Dihedrals)
        /\ TypesOf(ff_dicts[i].obj.Impropers) = TypesOf(ff_dicts[i].made.Impropers)
        /\ ff_dicts[i].from # 0 =>
             ff_dicts[i].made
               = add_ff_labels_to_dict(ff_dicts[ff_dicts[i].from].made, ff_dicts[i].label)

\* the SPC/E parameters were labelled "H2O", the result was labelled "X", and
\* the SPC/E parameters are being labelled again, now with "X"
C21_Witness ==
    /\ Len(ff_dicts) = 3
    /\ ff_dicts[1].obj = Spce_param_dict
    /\ ff_dicts[2].from = 1 /\ ff_dicts[2].label = s_H2O
    /\ ff_dicts[3].from = 2 /\ ff_dicts[3].label = <<"X">>
    /\ ff_dicts[3].obj.Labels[1] = <<"o", "w", "H", "2", "O", "X">>
    /\ ff_call.fn = "add_ff_labels_to_dict"
    /\ ff_call.arg = Spce_param_dict
    /\ ff_call.label = <<"X">>
    /\ ff_call.result.Labels[1] = <<"o", "w", "X">>

====
